---- MODULE Spec2Model ----
(***************************************************************************)
(* Call-queue worker of the admission assistant (CallWorker, listed in     *)
(* src/FIXES-APPLIED.md lines 375-494) over the Lead collection            *)
(* (src/src/models/Lead.js).                                               *)
(*                                                                         *)
(* Every await of the worker is an interleaving point: a store call        *)
(* (Lead.find, lead.save) or the outcome resolver either returns or        *)
(* rejects, and between two awaits the code runs without interruption      *)
(* (one JavaScript event loop).                                            *)
(*                                                                         *)
(* Conversation turns of the chat route (POST /chat-test in                *)
(* src/src/routes/leads.routes.js): ConversationService.processMessage     *)
(* (src/unnamed/part_002) with RAGService.retrieveContext                  *)
(* (src/src/services/rag.service.js) and LLMService.generateAIResponse     *)
(* (src/src/app.js lines 123-244). A turn suspends in Lead.findById, in    *)
(* the two calls of the retrieval collaborator, in the call of the model,  *)
(* in Lead.findByIdAndUpdate and in CallLog.create.                        *)
(*                                                                         *)
(* Batch import (POST /upload-leads in src/src/routes/leads.routes.js):    *)
(* the route parses the CSV file and suspends in one Lead.create per row;  *)
(* the unique indexes on email and phone that the schema declares are      *)
(* enforced by the store at each insert.                                   *)
(*                                                                         *)
(* Detailed health check (GET /health/detailed in src/src/app.js lines     *)
(* 31-100): the handler suspends in the ping of the store, in the calls of *)
(* RAGService.getCollectionStats and in the test call of the model.        *)
(***************************************************************************)
EXTENDS Integers, Sequences, FiniteSets, TLC

\* ------------------------------------------------------------- constants

\* .limit(5) of the queue query
BATCH_LIMIT == 5

\* if (lead.attempts >= 3)
MAX_ATTEMPTS == 3

\* Leads that the upload route may create in a run of Spec.
MaxLeads == 1

\* Leads in the collection when the pass of SpecBatch starts.
MaxBatchLeads == 7

\* The two callers of processCallQueue: the cron callback of start() and
\* triggerManually() (one manual invocation in flight at a time).
Triggers == {"cron", "manual"}

Outcomes == {"completed", "no_answer", "failed"}

\* ------------------------------------------------------------- state

VARIABLES
    leads,      \* the Lead collection in creation order: <<[status, attempts]>>
    isRunning,  \* CallWorker.isRunning
    pc,         \* per caller: the await its processCallQueue is suspended at
    batch,      \* per caller: the documents of `leads` (the result of Lead.find)
                \* that the for-of loop has not finished with, the current first
    idx,        \* per caller: how many documents the loop has started on
    doc,        \* per caller: `lead`, the in-memory document of the iteration
    outcome,    \* per caller: `outcome` of the iteration ("none" before it is set)
    called,     \* per caller: leads this pass has stored as calling, in order
    convo,      \* per lead: the paths of the stored Lead that a conversation
                \* turn writes: [transcript, interest_score, course_interest, summary]
    callLogs,   \* the CallLog collection, in creation order
    collection, \* RAGService.collection is set
    tpc,        \* per turn: the await its processMessage is suspended at
    req,        \* per turn: the arguments [leadId, userMessage]
    lead,       \* per turn: `lead`, the document read by Lead.findById
    updatedLead, \* per turn: `updatedLead`, the document the update returned
    retrievedContext, \* per turn: `retrievedContext`
    llmOutput,  \* per turn: `content`, what the model returned in this turn
    aiResult,   \* per turn: `aiResult`
    result,     \* per turn: how its last processMessage ended
    used,       \* per turn: the collaborator queries this turn has made
    turns,      \* number of turns started so far
    contacts,   \* per lead: the stored [name, phone, email]
    upload,     \* per upload request: where the route is, its `leads` still
                \* to insert and its counters
    env,        \* the dependencies of the server as they are right now
    health      \* the request of the health route: where the handler is and
                \* its `health` object

\* What the worker reads and writes.
workerVars == <<leads, isRunning, pc, batch, idx, doc, outcome, called>>

\* What only the conversation service reads and writes.
turnVars == <<callLogs, collection, tpc, req, lead, updatedLead, retrievedContext,
              llmOutput, aiResult, result, used, turns>>

\* What only the upload route reads and writes.
importVars == <<contacts, upload>>

\* What only the health route reads and writes.
healthVars == <<env, health>>

vars == <<leads, isRunning, pc, batch, idx, doc, outcome, called, convo,
          callLogs, collection, tpc, req, lead, updatedLead, retrievedContext,
          llmOutput, aiResult, result, used, turns, contacts, upload, env,
          health>>

\* ------------------------------------------------------------- Lead model

\* Lead.create(leadData) of the upload route: status 'pending', attempts
\* default 0; createdAt grows with the position in the collection.
NewLead == [status |-> "pending", attempts |-> 0]

LeadIds(ls) == 1..Len(ls)

\* The i-th applicant: name, phone and email as the store holds them
\* (trimmed, email in lower case); no two applicants share phone or email.
Applicant(i) ==
    [name |-> "Applicant", phone |-> ToString(110 + i),
     email |-> ToString(i) \o "@x.io"]

\* '' of the schema default, and any other summary: the first `len`
\* characters of the entries joined by generateSummary.
NoSummary == [entries |-> <<>>, len |-> 0]

\* Lead.create: interest_score 0, course_interest '', summary '', transcript []
NewConvo ==
    [transcript |-> <<>>, interest_score |-> 0, course_interest |-> "",
     summary |-> NoSummary]

\* ------------------------------------------------------------- query

RECURSIVE TakePending(_, _, _)
\* The ids of the pending leads from position i on, in createdAt order, at
\* most k of them.
TakePending(ls, i, k) ==
    IF i > Len(ls) \/ k = 0 THEN <<>>
    ELSE IF ls[i].status = "pending"
         THEN <<i>> \o TakePending(ls, i + 1, k - 1)
         ELSE TakePending(ls, i + 1, k)

RECURSIVE TakePendingNewestFirst(_, _, _)
TakePendingNewestFirst(ls, i, k) ==
    IF i < 1 \/ k = 0 THEN <<>>
    ELSE IF ls[i].status = "pending"
         THEN <<i>> \o TakePendingNewestFirst(ls, i - 1, k - 1)
         ELSE TakePendingNewestFirst(ls, i - 1, k)

\* sort({ createdAt: -1 }) in place of sort({ createdAt: 1 })
QueryPending_NewestFirst(ls) == TakePendingNewestFirst(ls, Len(ls), BATCH_LIMIT)

\* Lead.find({ status: 'pending' }).sort({ createdAt: 1 }).limit(5)
QueryPending(ls) == TakePending(ls, 1, BATCH_LIMIT)

\* The documents of a query result as loaded into memory.
LoadDocs(ls, ids) == [i \in 1..Len(ids) |-> [id |-> ids[i], attempts |-> ls[ids[i]].attempts]]

\* ------------------------------------------------------------- document

NoDoc == [id |-> 0, status |-> "none", attempts |-> 0, modified |-> {}]

\* lead.status = 'calling'; lead.attempts += 1;
BeginCall(loaded) ==
    [id |-> loaded.id, status |-> "calling", attempts |-> loaded.attempts + 1,
     modified |-> {"status", "attempts"}]

\* The table storing the resolver's outcome as the status.
TransitionStatus_StoresOutcome(o, att) ==
    IF o = "failed" THEN "failed" ELSE IF o = "completed" THEN "completed"
    ELSE IF att >= MAX_ATTEMPTS THEN "failed" ELSE o

\* The table with the retry branch dropped: no_answer always retries.
TransitionStatus_NoRetryLimit(o, att) ==
    IF o = "completed" THEN "completed"
    ELSE IF o = "no_answer" THEN "pending"
    ELSE IF o = "failed" THEN "failed"
    ELSE "calling"

\* The if / else-if chain on `outcome`; any other value leaves 'calling'.
TransitionStatus(o, att) ==
    IF o = "completed" THEN "completed"
    ELSE IF o = "no_answer"
         THEN (IF att >= MAX_ATTEMPTS THEN "failed" ELSE "pending")
    ELSE IF o = "failed" THEN "failed"
    ELSE "calling"

\* lead.status = s on the in-memory document
SetStatus(d, s) == [d EXCEPT !.status = s, !.modified = @ \cup {"status"}]

\* A successful lead.save(): the modified paths are $set on the stored lead.
SaveDoc(ls, d) ==
    [ls EXCEPT ![d.id] =
        [status   |-> IF "status" \in d.modified THEN d.status ELSE @.status,
         attempts |-> IF "attempts" \in d.modified THEN d.attempts ELSE @.attempts]]

\* The document after a successful save: nothing is modified any more.
Saved(d) == [d EXCEPT !.modified = {}]

\* ------------------------------------------------------------- guard

\* The cron callback returns early when isRunning; triggerManually has no check.
GuardAllows(p, running) == p = "cron" => ~running

\* this.isRunning = true in the cron callback
GuardOnStart(p, running) == IF p = "cron" THEN TRUE ELSE running

\* The callback without its finally block.
GuardOnReturn_NoFinally(p, running) == running

\* finally { this.isRunning = false } of the cron callback
GuardOnReturn(p, running) == IF p = "cron" THEN FALSE ELSE running

\* ------------------------------------------------------------- steps

\* The loop asks the store for the pending leads again after every lead.
LoopNext_Requery(ls, b, i) == [batch |-> LoadDocs(ls, QueryPending(ls)), idx |-> i + 1]

\* for (const lead of leads): the next element of the array fetched at the
\* start of the pass, whatever the store (ls) holds by now.
LoopNext(ls, b, i) == [batch |-> Tail(b), idx |-> i + 1]

\* processCallQueue of caller p returns.
Return(p) ==
    /\ pc' = [pc EXCEPT ![p] = "idle"]
    /\ batch' = [batch EXCEPT ![p] = <<>>]
    /\ idx' = [idx EXCEPT ![p] = 0]
    /\ doc' = [doc EXCEPT ![p] = NoDoc]
    /\ outcome' = [outcome EXCEPT ![p] = "none"]
    /\ called' = [called EXCEPT ![p] = <<>>]
    /\ isRunning' = GuardOnReturn(p, isRunning)
    /\ UNCHANGED <<convo, turnVars, importVars, healthVars>>

\* The i-th iteration starts on the first document of b and suspends in its
\* first save.
Iterate(p, b, i) ==
    /\ pc' = [pc EXCEPT ![p] = "save_calling"]
    /\ batch' = [batch EXCEPT ![p] = b]
    /\ idx' = [idx EXCEPT ![p] = i]
    /\ doc' = [doc EXCEPT ![p] = BeginCall(Head(b))]
    /\ outcome' = [outcome EXCEPT ![p] = "none"]
    /\ UNCHANGED <<isRunning, convo, turnVars, importVars, healthVars>>

\* The iteration of caller p is over: the loop goes on or the pass returns.
Continue(p) ==
    LET n == LoopNext(leads', batch[p], idx[p])
    IN  IF n.batch # <<>>
        THEN Iterate(p, n.batch, n.idx) /\ UNCHANGED called
        ELSE Return(p)

\* The catch block of the iteration: lead.status = 'failed'; await lead.save()
\* (`outcome` is scoped to the try block and is gone here).
Catch(p, d) ==
    /\ pc' = [pc EXCEPT ![p] = "save_failed"]
    /\ doc' = [doc EXCEPT ![p] = SetStatus(d, "failed")]
    /\ outcome' = [outcome EXCEPT ![p] = "none"]
    /\ UNCHANGED <<isRunning, batch, idx, called, convo, turnVars, importVars, healthVars>>

\* ------------------------------------------------------------- actions

\* POST /upload-leads inserts one more row, of an applicant the collection
\* does not hold yet.
ImportLead ==
    /\ Len(leads) < MaxLeads
    /\ leads' = Append(leads, NewLead)
    /\ convo' = Append(convo, NewConvo)
    /\ contacts' = Append(contacts, Applicant(Len(leads) + 1))
    /\ UNCHANGED <<isRunning, pc, batch, idx, doc, outcome, called, turnVars, healthVars, upload>>

\* The cron callback fires, or triggerManually is called.
Trigger(p) ==
    /\ p = "manual" => pc[p] = "idle"
    /\ IF GuardAllows(p, isRunning)
       THEN /\ pc[p] = "idle"
            /\ isRunning' = GuardOnStart(p, isRunning)
            /\ pc' = [pc EXCEPT ![p] = "find"]
            /\ UNCHANGED <<leads, batch, idx, doc, outcome, called, convo, turnVars, importVars, healthVars>>
       ELSE UNCHANGED vars

\* Lead.find resolves.
FindReturns(p) ==
    /\ pc[p] = "find"
    /\ LET b == LoadDocs(leads, QueryPending(leads))
       IN  IF Len(b) = 0
           THEN Return(p)
           ELSE Iterate(p, b, 1) /\ UNCHANGED called
    /\ UNCHANGED leads

\* Lead.find rejects: the outer catch logs and the pass returns.
FindFails(p) ==
    /\ pc[p] = "find"
    /\ Return(p)
    /\ UNCHANGED leads

\* The first lead.save() resolves: calling and the new attempts are stored.
SaveCallingOk(p) ==
    /\ pc[p] = "save_calling"
    /\ leads' = SaveDoc(leads, doc[p])
    /\ doc' = [doc EXCEPT ![p] = Saved(doc[p])]
    /\ called' = [called EXCEPT ![p] = Append(@, doc[p].id)]
    /\ pc' = [pc EXCEPT ![p] = "outcome"]
    /\ UNCHANGED <<isRunning, batch, idx, outcome, convo, turnVars, importVars, healthVars>>

\* The first lead.save() rejects.
SaveCallingFails(p) ==
    /\ pc[p] = "save_calling"
    /\ Catch(p, doc[p])
    /\ UNCHANGED leads

\* simulateCallOutcome resolves with o.
OutcomeReturns(p, o) ==
    /\ pc[p] = "outcome"
    /\ outcome' = [outcome EXCEPT ![p] = o]
    /\ doc' = [doc EXCEPT ![p] = SetStatus(doc[p], TransitionStatus(o, doc[p].attempts))]
    /\ pc' = [pc EXCEPT ![p] = "save_outcome"]
    /\ UNCHANGED <<leads, isRunning, batch, idx, called, convo, turnVars, importVars, healthVars>>

\* The outcome resolver rejects.
OutcomeFails(p) ==
    /\ pc[p] = "outcome"
    /\ Catch(p, doc[p])
    /\ UNCHANGED leads

\* The second lead.save() resolves.
SaveOutcomeOk(p) ==
    /\ pc[p] = "save_outcome"
    /\ leads' = SaveDoc(leads, doc[p])
    /\ Continue(p)

\* The second lead.save() rejects.
SaveOutcomeFails(p) ==
    /\ pc[p] = "save_outcome"
    /\ Catch(p, doc[p])
    /\ UNCHANGED leads

\* lead.save() of the catch block resolves.
SaveFailedOk(p) ==
    /\ pc[p] = "save_failed"
    /\ leads' = SaveDoc(leads, doc[p])
    /\ Continue(p)

\* The catch block without its inner try/catch: the rejected save reaches the
\* outer catch and the pass returns.
SaveFailedFails_Rethrow(p) ==
    /\ pc[p] = "save_failed"
    /\ UNCHANGED leads
    /\ Return(p)

\* lead.save() of the catch block rejects: logged, the loop goes on.
SaveFailedFails(p) ==
    /\ pc[p] = "save_failed"
    /\ UNCHANGED leads
    /\ Continue(p)

\* One step of the pass of caller p.
PassStep(p) ==
    \/ FindReturns(p)
    \/ FindFails(p)
    \/ SaveCallingOk(p)
    \/ SaveCallingFails(p)
    \/ \E o \in Outcomes : OutcomeReturns(p, o)
    \/ OutcomeFails(p)
    \/ SaveOutcomeOk(p)
    \/ SaveOutcomeFails(p)
    \/ SaveFailedOk(p)
    \/ SaveFailedFails(p)

\* ------------------------------------------------------------- conversation: data

\* Two requests of POST /chat-test that may be in flight together.
TurnIds == {"T1", "T2"}

\* A JavaScript value of the parsed model output, by typeof: the string s,
\* the number n, the boolean b, undefined (an absent member) or null.
Str(x) == [t |-> "string", s |-> x, n |-> 0, b |-> FALSE]
Num(x) == [t |-> "number", s |-> "", n |-> x, b |-> FALSE]
Bool(x) == [t |-> "boolean", s |-> "", n |-> 0, b |-> x]
Undefined == [t |-> "undefined", s |-> "", n |-> 0, b |-> FALSE]
Null == [t |-> "object", s |-> "", n |-> 0, b |-> FALSE]

\* typeof v
TypeOf(v) == v.t

\* v in a boolean context
Truthy(v) ==
    CASE v.t = "string" -> v.s # ""
      [] v.t = "number" -> v.n # 0
      [] v.t = "boolean" -> v.b
      [] OTHER -> FALSE

Fields ==
    {"response", "intent", "interest_score_delta", "course_detected",
     "objection_detected", "handoff_required"}

HANDOFF_TEXT ==
    "I don't have that information in the knowledge base. Let me connect you with a counselor who can help you better."

FALLBACK_TEXT ==
    "I'm here to help you with admissions. Could you please rephrase your question?"

\* The record returned when no context was retrieved.
HandoffRecord ==
    [response |-> Str(HANDOFF_TEXT), intent |-> Str("handoff"),
     interest_score_delta |-> Num(0), course_detected |-> Str(""),
     objection_detected |-> Str(""), handoff_required |-> Bool(TRUE)]

\* The record returned by the catch block of generateAIResponse.
FallbackRecord ==
    [response |-> Str(FALLBACK_TEXT), intent |-> Str("general"),
     interest_score_delta |-> Num(0), course_detected |-> Str(""),
     objection_detected |-> Str(""), handoff_required |-> Bool(FALSE)]

NoRecord == [f \in Fields |-> Undefined]

\* ------------------------------------------------------------- conversation: retrieval

\* A string is a sequence of pieces; s.includes(piece) looks for one of them.
Includes(str, piece) == \E i \in 1..Len(str) : str[i] = piece

NO_CONTEXT == <<"No relevant information found", " in knowledge base.">>

RETRIEVAL_FAILED == <<"Unable to retrieve context", " from knowledge base.">>

\* Two documents of the knowledge base; the second one quotes the phrase the
\* assistant uses.
FeesDoc == <<"BTech tuition is listed in the fee schedule.">>

FaqDoc == <<"FAQ: the assistant answers '", "No relevant information found", "' when unsure.">>

SourceTag(i) ==
    CASE i = 1 -> "[Source 1]: "
      [] i = 2 -> "[Source 2]: "
      [] OTHER -> "[Source 3]: "

RECURSIVE JoinSources(_, _)
\* docs.map((doc, idx) => `[Source ${idx + 1}]: ${doc}`).join('\n\n'), from
\* the i-th document on
JoinSources(docs, i) ==
    IF i > Len(docs) THEN <<>>
    ELSE <<SourceTag(i)>> \o docs[i] \o
         (IF i < Len(docs) THEN <<"\n\n">> ELSE <<>>) \o JoinSources(docs, i + 1)

\* What collection.query may resolve with: `documents` absent, an empty
\* list, or one list of matches for the one query text.
QueryResults ==
    {[has |-> FALSE, documents |-> <<>>]} \cup
    {[has |-> TRUE, documents |-> d] :
        d \in {<<>>, <<(<<>>)>>, <<(<<FeesDoc>>)>>, <<(<<FaqDoc>>)>>,
               <<(<<FeesDoc, FaqDoc>>)>>}}

\* The value retrieveContext returns for a resolved query.
FormatContext(results) ==
    IF ~results.has \/ Len(results.documents) = 0
    THEN NO_CONTEXT
    ELSE JoinSources(results.documents[1], 1)

\* ------------------------------------------------------------- conversation: generation

\* The test without its second disjunct.
NoContext_FirstPhraseOnly(ctx) == Includes(ctx, "No relevant information found")

\* if (retrievedContext.includes('No relevant information found') ||
\*     retrievedContext.includes('Unable to retrieve context'))
NoContext(ctx) ==
    \/ Includes(ctx, "No relevant information found")
    \/ Includes(ctx, "Unable to retrieve context")

\* A reply of the model: its text is made of "{", "}", prose without braces
\* and "members", a well-formed list of JSON members whose values are
\* `members`.
Content(text, members) == [text |-> text, members |-> members]

Positions(text, piece) == {i \in 1..Len(text) : text[i] = piece}

SetMin(S) == CHOOSE x \in S : \A y \in S : x <= y

SetMax(S) == CHOOSE x \in S : \A y \in S : y <= x

\* content.match(/\{[\s\S]*\}/): from the first "{" to the last "}" after
\* it; <<>> when there is no match.
MatchJSON(text) ==
    LET closes == Positions(text, "}")
        opens == {i \in Positions(text, "{") : \E j \in closes : i < j}
    IN  IF opens = {} THEN <<>>
        ELSE SubSeq(text, SetMin(opens), SetMax(closes))

\* JSON.parse(jsonMatch[0]): an object, or a SyntaxError.
ParseJSON(match, members) ==
    IF match = <<"{", "members", "}">> THEN [ok |-> TRUE, value |-> members]
    ELSE IF match = <<"{", "}">> THEN [ok |-> TRUE, value |-> NoRecord]
    ELSE [ok |-> FALSE, value |-> NoRecord]

\* The validation without the test of objection_detected.
IsValid_ObjectionUnchecked(parsed) ==
    /\ Truthy(parsed.response) /\ TypeOf(parsed.response) = "string"
    /\ Truthy(parsed.intent) /\ TypeOf(parsed.intent) = "string"
    /\ TypeOf(parsed.interest_score_delta) = "number"
    /\ TypeOf(parsed.course_detected) = "string"
    /\ TypeOf(parsed.handoff_required) = "boolean"

\* const isValid = ...
IsValid(parsed) ==
    /\ Truthy(parsed.response) /\ TypeOf(parsed.response) = "string"
    /\ Truthy(parsed.intent) /\ TypeOf(parsed.intent) = "string"
    /\ TypeOf(parsed.interest_score_delta) = "number"
    /\ TypeOf(parsed.course_detected) = "string"
    /\ TypeOf(parsed.objection_detected) = "string"
    /\ TypeOf(parsed.handoff_required) = "boolean"

\* generateAIResponse from the reply of the model on: `parsed` when it is
\* found, parses and is valid; every throw ends in the catch block, which
\* returns the fallback record.
ValidateReply(content) ==
    LET m == MatchJSON(content.text)
        p == ParseJSON(m, content.members)
    IN  IF m = <<>> THEN FallbackRecord
        ELSE IF ~p.ok THEN FallbackRecord
        ELSE IF ~IsValid(p.value) THEN FallbackRecord
        ELSE p.value

\* Two well-formed records a model may produce.
Reply1 ==
    [response |-> Str("The BTech fee schedule is in the brochure."),
     intent |-> Str("course_inquiry"), interest_score_delta |-> Num(3),
     course_detected |-> Str("BTech"), objection_detected |-> Str(""),
     handoff_required |-> Bool(FALSE)]

Reply2 ==
    [response |-> Str("I understand that the fees are a concern."),
     intent |-> Str("objection"), interest_score_delta |-> Num(-3),
     course_detected |-> Str(""), objection_detected |-> Str("fees too high"),
     handoff_required |-> Bool(TRUE)]

\* A well-formed record whose delta is far outside the range of the prompt.
Reply3 == [Reply1 EXCEPT !.interest_score_delta = Num(250)]

\* A value of another primitive type than the one field f must have.
WrongType(f) ==
    IF f = "interest_score_delta" THEN Str("3")
    ELSE IF f = "handoff_required" THEN Str("false")
    ELSE Num(7)

\* Reply1 with one member absent, null or of the wrong type.
BrokenReplies ==
    UNION {{[Reply1 EXCEPT ![f] = Undefined], [Reply1 EXCEPT ![f] = Null],
            [Reply1 EXCEPT ![f] = WrongType(f)]} : f \in Fields}

\* The reply is the record and nothing else.
Bare(members) == Content(<<"{", "members", "}">>, members)

\* The replies of the model to one turn.
LLMContents ==
    {Bare(m) : m \in {Reply1, Reply2, Reply3} \cup BrokenReplies} \cup
    {Content(t, Reply1) :
        t \in {<<"Let me check.">>,
               <<"Here you go: ", "{", "members", "}", " Anything else?">>,
               <<"{", "}">>,
               <<"{", "members", "}", " (schema: ", "{", "}", ")">>}}

\* The replies of the model to two turns in flight together.
RaceContents == {Bare(Reply2), Bare(Reply3)}

\* ------------------------------------------------------------- conversation: update

SCORE_MIN == 0

SCORE_MAX == 100

SUMMARY_MAX == 500

\* recentTranscript of the summary: conversationHistory.slice(-6)
SUMMARY_WINDOW == 6

\* if (conversationHistory.length > 4)
SUMMARY_THRESHOLD == 4

Max(a, b) == IF a >= b THEN a ELSE b

\* The clamp without its upper limit.
ClampScore_NoUpperLimit(x) == Max(SCORE_MIN, x)

\* Math.max(0, Math.min(100, x))
ClampScore(x) == Max(SCORE_MIN, IF x <= SCORE_MAX THEN x ELSE SCORE_MAX)

\* A transcript entry (the timestamp, new Date(), is left out).
Entry(role, text) == [role |-> role, text |-> text]

\* A long question of a caller (152 characters).
HostelQuestion ==
    "Is there a hostel on campus, what does a room cost per semester, is the mess included, and can first-year students choose a single room or a shared one?"

\* The questions a caller sends.
Messages == {"What are the BTech fees?", HostelQuestion}

\* text.length
Chars(text) ==
    CASE text = HANDOFF_TEXT -> 113
      [] text = FALLBACK_TEXT -> 78
      [] text = "What are the BTech fees?" -> 24
      [] text = HostelQuestion -> 152
      [] text = "The BTech fee schedule is in the brochure." -> 42
      [] text = "I understand that the fees are a concern." -> 41
      [] text = "user" -> 4
      [] text = "assistant" -> 9
      [] OTHER -> 6

RECURSIVE JoinedChars(_)
\* The length of entries.map(t => `${t.role}: ${t.text}`).join(' | ')
JoinedChars(entries) ==
    IF entries = <<>> THEN 0
    ELSE Chars(Head(entries).role) + 2 + Chars(Head(entries).text) +
         (IF Len(entries) > 1 THEN 3 ELSE 0) + JoinedChars(Tail(entries))

\* generateSummary(recentTranscript): messages.substring(0, 500)
GenerateSummary(entries) ==
    [entries |-> entries,
     len |-> IF JoinedChars(entries) <= SUMMARY_MAX
             THEN JoinedChars(entries) ELSE SUMMARY_MAX]

\* arr.slice(-n)
LastN(arr, n) == SubSeq(arr, Max(1, Len(arr) - n + 1), Len(arr))

\* updateData with the test of the summary on the transcript read alone.
UpdateData_PreTurnHistory(read, msg, ai) ==
    LET conversationHistory == read.transcript \o <<Entry("user", msg)>>
        assistantMessageEntry == Entry("assistant", ai.response.s)
    IN  [push |-> <<Entry("user", msg), assistantMessageEntry>>,
         interest_score |-> ClampScore(read.interest_score + ai.interest_score_delta.n),
         setCourse |-> Truthy(ai.course_detected),
         course_interest |-> ai.course_detected.s,
         setSummary |-> Len(read.transcript) > SUMMARY_THRESHOLD,
         summary |-> GenerateSummary(LastN(conversationHistory, SUMMARY_WINDOW)
                                     \o <<assistantMessageEntry>>)]

\* updateData of a turn on the document `read` by findById, for the message
\* msg and the record ai.
UpdateData(read, msg, ai) ==
    LET conversationHistory == read.transcript \o <<Entry("user", msg)>>
        assistantMessageEntry == Entry("assistant", ai.response.s)
    IN  [push |-> <<Entry("user", msg), assistantMessageEntry>>,
         interest_score |-> ClampScore(read.interest_score + ai.interest_score_delta.n),
         setCourse |-> Truthy(ai.course_detected),
         course_interest |-> ai.course_detected.s,
         setSummary |-> Len(conversationHistory) > SUMMARY_THRESHOLD,
         summary |-> GenerateSummary(LastN(conversationHistory, SUMMARY_WINDOW)
                                     \o <<assistantMessageEntry>>)]

\* The update that always sets the whole transcript, computed from the
\* document the turn has read.
ApplyUpdate_SetTranscript(c, u, read) ==
    [transcript |-> read.transcript \o u.push,
     interest_score |-> u.interest_score,
     course_interest |-> IF u.setCourse THEN u.course_interest ELSE c.course_interest,
     summary |-> IF u.setSummary THEN u.summary ELSE c.summary]

\* The update that sets the transcript to the two new entries.
ApplyUpdate_ReplaceTranscript(c, u, read) ==
    [transcript |-> u.push,
     interest_score |-> u.interest_score,
     course_interest |-> IF u.setCourse THEN u.course_interest ELSE c.course_interest,
     summary |-> IF u.setSummary THEN u.summary ELSE c.summary]

\* The update that only pushes the two entries; the other paths are left to
\* a later write.
ApplyUpdate_PushOnly(c, u, read) == [c EXCEPT !.transcript = @ \o u.push]

\* Lead.findByIdAndUpdate(leadId, updateData) on the stored paths c: one
\* atomic $push of the two entries and $set of the other paths.
ApplyUpdate(c, u, read) ==
    [transcript |-> c.transcript \o u.push,
     interest_score |-> u.interest_score,
     course_interest |-> IF u.setCourse THEN u.course_interest ELSE c.course_interest,
     summary |-> IF u.setSummary THEN u.summary ELSE c.summary]

\* The document of CallLog.create for a turn.
NewCallLog(id, msg, ai) ==
    [leadId |-> id, duration |-> 0, intents |-> <<ai.intent.s>>,
     objection_detected |-> ai.objection_detected.s,
     handoff_required |-> ai.handoff_required.b,
     raw_transcript |-> <<"User: ", msg, "\nAI: ", ai.response.s>>]

\* ------------------------------------------------------------- conversation: turn

NoReq == [leadId |-> 0, userMessage |-> ""]

NoLead == [found |-> FALSE, id |-> 0, transcript |-> <<>>, interest_score |-> 0]

NoUpdated == [interest_score |-> 0, course_interest |-> "", status |-> "none"]

NoContent == Content(<<>>, Undefined)

NoResult == [kind |-> "none"]

\* processMessage (or the route before it) throws e.
Failure(e) == [kind |-> "error", error |-> e]

\* The object processMessage returns.
Success(ai, updated) ==
    [kind |-> "ok", response |-> ai.response.s, lead |-> updated,
     intent |-> ai.intent.s, handoff_required |-> ai.handoff_required.b,
     objection_detected |-> ai.objection_detected.s]

NoneUsed == [retrieval |-> 0, generation |-> 0]

\* processMessage of turn t is over with result r; its locals are gone and
\* the route is about to answer.
Finish(t, r) ==
    /\ tpc' = [tpc EXCEPT ![t] = "done"]
    /\ result' = [result EXCEPT ![t] = r]
    /\ req' = [req EXCEPT ![t] = NoReq]
    /\ lead' = [lead EXCEPT ![t] = NoLead]
    /\ updatedLead' = [updatedLead EXCEPT ![t] = NoUpdated]
    /\ retrievedContext' = [retrievedContext EXCEPT ![t] = <<>>]
    /\ llmOutput' = [llmOutput EXCEPT ![t] = NoContent]
    /\ aiResult' = [aiResult EXCEPT ![t] = Undefined]

\* catch (error) { logger.error(...); throw error; }
Fail(t, e) ==
    /\ Finish(t, Failure(e))
    /\ UNCHANGED <<workerVars, importVars, healthVars, convo, callLogs, collection, used, turns>>

\* generateAIResponse has returned ai: the turn builds updateData and
\* suspends in Lead.findByIdAndUpdate.
Generated(t, ai) ==
    /\ aiResult' = [aiResult EXCEPT ![t] = ai]
    /\ tpc' = [tpc EXCEPT ![t] = "update"]

\* retrieveContext has returned ctx and generateAIResponse is called: it
\* returns the handoff record at once, or suspends in getModel().invoke().
Retrieved(t, ctx) ==
    /\ retrievedContext' = [retrievedContext EXCEPT ![t] = ctx]
    /\ IF NoContext(ctx)
       THEN Generated(t, HandoffRecord) /\ UNCHANGED used
       ELSE /\ tpc' = [tpc EXCEPT ![t] = "llm_invoke"]
            /\ used' = [used EXCEPT ![t].generation = @ + 1]
            /\ UNCHANGED aiResult
    /\ UNCHANGED <<workerVars, importVars, healthVars, convo, callLogs, req, lead, updatedLead,
                   llmOutput, result, turns>>

\* POST /chat-test with body { leadId: id, message: msg }; id 0 and msg ""
\* stand for a missing member. The route rejects the request or calls
\* processMessage, which suspends in Lead.findById.
ChatTest(t, id, msg) ==
    /\ tpc[t] = "idle"
    /\ turns' = turns + 1
    /\ IF id = 0 \/ msg = ""
       THEN /\ result' = [result EXCEPT ![t] = Failure("leadId and message are required")]
            /\ tpc' = [tpc EXCEPT ![t] = "done"]
            /\ UNCHANGED req
       ELSE /\ tpc' = [tpc EXCEPT ![t] = "find"]
            /\ req' = [req EXCEPT ![t] = [leadId |-> id, userMessage |-> msg]]
            /\ UNCHANGED result
    /\ UNCHANGED <<workerVars, importVars, healthVars, convo, callLogs, collection, lead, updatedLead,
                   retrievedContext, llmOutput, aiResult, used>>

\* The route answers: res.json with the result, or the error handler with
\* the error; the request is over.
Respond(t) ==
    /\ tpc[t] = "done"
    /\ tpc' = [tpc EXCEPT ![t] = "idle"]
    /\ result' = [result EXCEPT ![t] = NoResult]
    /\ used' = [used EXCEPT ![t] = NoneUsed]
    /\ UNCHANGED <<workerVars, importVars, healthVars, convo, callLogs, collection, req, lead, updatedLead,
                   retrievedContext, llmOutput, aiResult, turns>>

\* The turn without the test of `lead`: it goes on to retrieveContext.
FindByIdReturns_NoCheck(t) ==
    /\ tpc[t] = "find"
    /\ lead' = [lead EXCEPT ![t] = [NoLead EXCEPT !.id = req[t].leadId]]
    /\ used' = [used EXCEPT ![t].retrieval = @ + 1]
    /\ tpc' = [tpc EXCEPT ![t] = IF collection THEN "rag_query" ELSE "rag_init"]
    /\ UNCHANGED <<workerVars, importVars, healthVars, convo, callLogs, collection, req, updatedLead,
                   retrievedContext, llmOutput, aiResult, result, turns>>

\* The turn that calls generateAIResponse before retrieveContext: the model
\* is invoked with the history while no context has been retrieved.
FindByIdReturns_GeneratesFirst(t) ==
    /\ tpc[t] = "find"
    /\ req[t].leadId \in LeadIds(leads)
    /\ lead' = [lead EXCEPT ![t] =
           [found |-> TRUE, id |-> req[t].leadId,
            transcript |-> convo[req[t].leadId].transcript,
            interest_score |-> convo[req[t].leadId].interest_score]]
    /\ used' = [used EXCEPT ![t].generation = @ + 1]
    /\ tpc' = [tpc EXCEPT ![t] = "llm_invoke"]
    /\ UNCHANGED <<workerVars, importVars, healthVars, convo, callLogs, collection, req,
                   updatedLead, retrievedContext, llmOutput, aiResult, result,
                   turns>>

\* Lead.findById resolves: with null the turn throws 'Lead not found', with
\* a document it calls retrieveContext, which suspends in
\* initializeCollection or in collection.query.
FindByIdReturns(t) ==
    /\ tpc[t] = "find"
    /\ LET id == req[t].leadId
       IN  IF id \in LeadIds(leads)
           THEN /\ lead' = [lead EXCEPT ![t] =
                       [found |-> TRUE, id |-> id,
                        transcript |-> convo[id].transcript,
                        interest_score |-> convo[id].interest_score]]
                /\ used' = [used EXCEPT ![t].retrieval = @ + 1]
                /\ tpc' = [tpc EXCEPT ![t] =
                       IF collection THEN "rag_query" ELSE "rag_init"]
                /\ UNCHANGED <<workerVars, importVars, healthVars, convo, callLogs, collection, req,
                               updatedLead, retrievedContext, llmOutput,
                               aiResult, result, turns>>
           ELSE Fail(t, "Lead not found")

\* Lead.findById rejects.
FindByIdFails(t) ==
    /\ tpc[t] = "find"
    /\ Fail(t, "findById rejected")

\* initializeCollection resolves.
RagInitReturns(t) ==
    /\ tpc[t] = "rag_init"
    /\ collection' = TRUE
    /\ tpc' = [tpc EXCEPT ![t] = "rag_query"]
    /\ UNCHANGED <<workerVars, importVars, healthVars, convo, callLogs, req, lead, updatedLead,
                   retrievedContext, llmOutput, aiResult, result, used, turns>>

\* initializeCollection throws (no client, collaborator unreachable): the
\* catch block of retrieveContext returns the failure text.
RagInitFails(t) ==
    /\ tpc[t] = "rag_init"
    /\ Retrieved(t, RETRIEVAL_FAILED)
    /\ UNCHANGED collection

\* collection.query resolves with r.
RagQueryReturns(t, r) ==
    /\ tpc[t] = "rag_query"
    /\ Retrieved(t, FormatContext(r))
    /\ UNCHANGED collection

\* retrieveContext without its catch block: the rejection reaches the catch
\* block of processMessage.
RagQueryFails_Rethrow(t) ==
    /\ tpc[t] = "rag_query"
    /\ Fail(t, "query rejected")

\* collection.query rejects.
RagQueryFails(t) ==
    /\ tpc[t] = "rag_query"
    /\ Retrieved(t, RETRIEVAL_FAILED)
    /\ UNCHANGED collection

\* getModel().invoke(messages) resolves with content c.
LLMReturns(t, c) ==
    /\ tpc[t] = "llm_invoke"
    /\ llmOutput' = [llmOutput EXCEPT ![t] = c]
    /\ Generated(t, ValidateReply(c))
    /\ UNCHANGED <<workerVars, importVars, healthVars, convo, callLogs, collection, req, lead,
                   updatedLead, retrievedContext, result, used, turns>>

\* generateAIResponse without its catch block: the rejection of invoke
\* reaches the catch block of processMessage.
LLMFails_Rethrow(t) ==
    /\ tpc[t] = "llm_invoke"
    /\ Fail(t, "invoke rejected")

\* getModel() throws (no API key) or invoke rejects.
LLMFails(t) ==
    /\ tpc[t] = "llm_invoke"
    /\ Generated(t, FallbackRecord)
    /\ UNCHANGED <<workerVars, importVars, healthVars, convo, callLogs, collection, req, lead,
                   updatedLead, retrievedContext, llmOutput, result, used, turns>>

\* The turn whose update has no filter on the lead: it is applied to every
\* lead of the collection.
UpdateReturns_EveryLead(t) ==
    /\ tpc[t] = "update"
    /\ LET id == req[t].leadId
           u == UpdateData(lead[t], req[t].userMessage, aiResult[t])
           c == ApplyUpdate(convo[id], u, lead[t])
       IN  /\ convo' = [l \in DOMAIN convo |-> ApplyUpdate(convo[l], u, lead[t])]
           /\ updatedLead' = [updatedLead EXCEPT ![t] =
                  [interest_score |-> c.interest_score,
                   course_interest |-> c.course_interest,
                   status |-> leads[id].status]]
    /\ tpc' = [tpc EXCEPT ![t] = "log"]
    /\ UNCHANGED <<workerVars, importVars, healthVars, callLogs, collection, req, lead,
                   retrievedContext, llmOutput, aiResult, result, used, turns>>

\* The turn whose update also marks the lead as completed.
UpdateReturns_MarksCompleted(t) ==
    /\ tpc[t] = "update"
    /\ LET id == req[t].leadId
           u == UpdateData(lead[t], req[t].userMessage, aiResult[t])
           c == ApplyUpdate(convo[id], u, lead[t])
       IN  /\ convo' = [convo EXCEPT ![id] = c]
           /\ leads' = [leads EXCEPT ![id].status = "completed"]
           /\ updatedLead' = [updatedLead EXCEPT ![t] =
                  [interest_score |-> c.interest_score,
                   course_interest |-> c.course_interest,
                   status |-> "completed"]]
    /\ tpc' = [tpc EXCEPT ![t] = "log"]
    /\ UNCHANGED <<isRunning, pc, batch, idx, doc, outcome, called, importVars, healthVars,
                   callLogs, collection, req, lead, retrievedContext, llmOutput,
                   aiResult, result, used, turns>>

\* Lead.findByIdAndUpdate resolves; the turn suspends in CallLog.create.
UpdateReturns(t) ==
    /\ tpc[t] = "update"
    /\ LET id == req[t].leadId
           u == UpdateData(lead[t], req[t].userMessage, aiResult[t])
           c == ApplyUpdate(convo[id], u, lead[t])
       IN  /\ convo' = [convo EXCEPT ![id] = c]
           /\ updatedLead' = [updatedLead EXCEPT ![t] =
                  [interest_score |-> c.interest_score,
                   course_interest |-> c.course_interest,
                   status |-> leads[id].status]]
    /\ tpc' = [tpc EXCEPT ![t] = "log"]
    /\ UNCHANGED <<workerVars, importVars, healthVars, callLogs, collection, req, lead,
                   retrievedContext, llmOutput, aiResult, result, used, turns>>

\* The rejected update is caught and logged, and the turn goes on.
UpdateFails_Swallowed(t) ==
    /\ tpc[t] = "update"
    /\ tpc' = [tpc EXCEPT ![t] = "log"]
    /\ UNCHANGED <<workerVars, importVars, healthVars, convo, callLogs, collection, req, lead, updatedLead,
                   retrievedContext, llmOutput, aiResult, result, used, turns>>

\* The rejection of the update is neither caught nor rethrown: the promise
\* of processMessage never settles.
UpdateFails_NeverSettles(t) ==
    /\ tpc[t] = "update"
    /\ tpc' = [tpc EXCEPT ![t] = "pending_forever"]
    /\ UNCHANGED <<workerVars, importVars, healthVars, convo, callLogs, collection, req, lead,
                   updatedLead, retrievedContext, llmOutput, aiResult, result,
                   used, turns>>

\* Lead.findByIdAndUpdate rejects.
UpdateFails(t) ==
    /\ tpc[t] = "update"
    /\ Fail(t, "findByIdAndUpdate rejected")

\* The turn that creates its CallLog twice.
LogReturns_Twice(t) ==
    /\ tpc[t] = "log"
    /\ LET log == NewCallLog(lead[t].id, req[t].userMessage, aiResult[t])
       IN  callLogs' = Append(Append(callLogs, log), log)
    /\ Finish(t, Success(aiResult[t], updatedLead[t]))
    /\ UNCHANGED <<workerVars, importVars, healthVars, convo, collection, used, turns>>

\* CallLog.create resolves and processMessage returns.
LogReturns(t) ==
    /\ tpc[t] = "log"
    /\ callLogs' = Append(callLogs, NewCallLog(lead[t].id, req[t].userMessage, aiResult[t]))
    /\ Finish(t, Success(aiResult[t], updatedLead[t]))
    /\ UNCHANGED <<workerVars, importVars, healthVars, convo, collection, used, turns>>

\* CallLog.create rejects.
LogFails(t) ==
    /\ tpc[t] = "log"
    /\ Fail(t, "CallLog.create rejected")

\* ------------------------------------------------------------- import

\* The requests of the upload route that may be in flight together.
Uploaders == {"U1", "U2"}

\* String.prototype.trim on the strings of the rows below.
Trim(str) ==
    CASE str = " 111 " -> "111"
      [] str = " " -> ""
      [] OTHER -> str

\* String.prototype.toLowerCase on the strings of the rows below.
ToLowerCase(str) ==
    CASE str = "1@X.IO" -> "1@x.io"
      [] str = "Dev@x.io" -> "dev@x.io"
      [] OTHER -> str

\* Rows of a CSV file as csv-parser emits them ("" for a missing column): a
\* new applicant, another one, one with the phone of Applicant(1) between
\* blanks, one with the email of Applicant(1) in capitals, one without a
\* name, and one whose phone is a blank.
RowNew == [name |-> "Dev", phone |-> "221", email |-> "Dev@x.io"]
RowOther == [name |-> "Esha", phone |-> "222", email |-> "esha@x.io"]
RowSamePhone == [name |-> "Ben", phone |-> " 111 ", email |-> "ben@x.io"]
RowSameEmail == [name |-> "Chen", phone |-> "223", email |-> "1@X.IO"]
RowNoName == [name |-> "", phone |-> "224", email |-> "f@x.io"]
RowBlankPhone == [name |-> "Gia", phone |-> " ", email |-> "g@x.io"]

Rows == {RowNew, RowOther, RowSamePhone, RowSameEmail, RowNoName, RowBlankPhone}

\* if (row.name && row.phone && row.email)
HasAllColumns(row) == row.name # "" /\ row.phone # "" /\ row.email # ""

\* The object the 'data' handler pushes for a row.
LeadData(row) ==
    [name |-> Trim(row.name), phone |-> Trim(row.phone),
     email |-> ToLowerCase(Trim(row.email))]

\* `leads` when the stream has ended.
ParseCsv(file) ==
    LET kept == SelectSeq(file, HasAllColumns)
    IN  [i \in 1..Len(kept) |-> LeadData(kept[i])]

\* The setters of the schema (trim, lowercase) on the paths of leadData.
Cast(d) ==
    [name |-> Trim(d.name), phone |-> Trim(d.phone),
     email |-> ToLowerCase(Trim(d.email))]

\* required: true on name, phone and email (an empty string is missing).
Validates(c) == c.name # "" /\ c.phone # "" /\ c.email # ""

\* The unique indexes ({ email: 1 }, { phone: 1 }) that an insert of c into
\* the collection cs would violate.
DuplicateFields(cs, c) ==
    {f \in {"email", "phone"} : \E i \in 1..Len(cs) : cs[i][f] = c[f]}

NoUpload == [pc |-> "idle"]

\* The route throws e (asyncWrapper hands it to the error handler).
UploadError(e) == [pc |-> "done", kind |-> "error", error |-> e]

\* The data of the 201 response.
UploadReport(w) ==
    [pc |-> "done", kind |-> "ok", total |-> w.total, inserted |-> w.inserted,
     skipped |-> w.skipped, duplicates |-> w.duplicates]

\* The for-of loop goes on after the row it has dealt with, in state w: the
\* next Lead.create, or the response.
NextRow(u, w) ==
    LET rest == [w EXCEPT !.rows = Tail(@)]
    IN  upload' = [upload EXCEPT ![u] =
                      IF rest.rows = <<>> THEN UploadReport(rest) ELSE rest]

\* POST /upload-leads, with a file (has) or without: the route rejects the
\* request or waits for the stream of the file to end.
UploadLeads(u, has, file) ==
    /\ upload[u].pc = "idle"
    /\ upload' = [upload EXCEPT ![u] =
          IF ~has THEN UploadError("No file uploaded")
          ELSE [pc |-> "parse", file |-> file]]
    /\ UNCHANGED <<workerVars, convo, turnVars, healthVars, contacts>>

\* The stream emits 'end': the route has its `leads` and suspends in the
\* first Lead.create, or throws when there is none.
ParseEnds(u) ==
    /\ upload[u].pc = "parse"
    /\ LET ls == ParseCsv(upload[u].file)
       IN  upload' = [upload EXCEPT ![u] =
              IF Len(ls) = 0 THEN UploadError("No valid leads found in CSV")
              ELSE [pc |-> "create", rows |-> ls, total |-> Len(ls),
                    inserted |-> 0, skipped |-> 0, duplicates |-> <<>>]]
    /\ UNCHANGED <<workerVars, convo, turnVars, healthVars, contacts>>

\* The stream emits 'error'.
ParseFails(u) ==
    /\ upload[u].pc = "parse"
    /\ upload' = [upload EXCEPT ![u] = UploadError("read error")]
    /\ UNCHANGED <<workerVars, convo, turnVars, healthVars, contacts>>

\* The store without the unique indexes: every valid document is inserted.
CreateReturns_NoIndex(u) ==
    /\ upload[u].pc = "create"
    /\ LET c == Cast(Head(upload[u].rows))
       IN  /\ Validates(c)
           /\ leads' = Append(leads, NewLead)
           /\ convo' = Append(convo, NewConvo)
           /\ contacts' = Append(contacts, c)
    /\ NextRow(u, [upload[u] EXCEPT !.inserted = @ + 1])
    /\ UNCHANGED <<isRunning, pc, batch, idx, doc, outcome, called, turnVars, healthVars>>

\* Lead.create(leadData) resolves: the document is valid and violates no
\* unique index, and the store has inserted it with the defaults.
CreateReturns(u) ==
    /\ upload[u].pc = "create"
    /\ LET c == Cast(Head(upload[u].rows))
       IN  /\ Validates(c)
           /\ DuplicateFields(contacts, c) = {}
           /\ leads' = Append(leads, NewLead)
           /\ convo' = Append(convo, NewConvo)
           /\ contacts' = Append(contacts, c)
    /\ NextRow(u, [upload[u] EXCEPT !.inserted = @ + 1])
    /\ UNCHANGED <<isRunning, pc, batch, idx, doc, outcome, called, turnVars, healthVars>>

\* Lead.create rejects with code 11000, the message naming the violated
\* index of field f: the row is counted as skipped.
CreateDuplicate(u, f) ==
    /\ upload[u].pc = "create"
    /\ LET c == Cast(Head(upload[u].rows))
       IN  /\ Validates(c)
           /\ f \in DuplicateFields(contacts, c)
           /\ NextRow(u, [upload[u] EXCEPT
                 !.skipped = @ + 1,
                 !.duplicates = Append(@, [name |-> Head(upload[u].rows).name,
                                           field |-> f,
                                           value |-> Head(upload[u].rows)[f]])])
    /\ UNCHANGED <<workerVars, convo, turnVars, healthVars, contacts>>

\* Lead.create rejects with a validation error: the row is logged only.
CreateInvalid(u) ==
    /\ upload[u].pc = "create"
    /\ ~Validates(Cast(Head(upload[u].rows)))
    /\ NextRow(u, upload[u])
    /\ UNCHANGED <<workerVars, convo, turnVars, healthVars, contacts>>

\* Lead.create rejects for another reason (the store is unreachable): the
\* row is logged only.
CreateFails(u) ==
    /\ upload[u].pc = "create"
    /\ NextRow(u, upload[u])
    /\ UNCHANGED <<workerVars, convo, turnVars, healthVars, contacts>>

\* res.status(201).json(...) or the error handler: the request is over.
UploadRespond(u) ==
    /\ upload[u].pc = "done"
    /\ upload' = [upload EXCEPT ![u] = NoUpload]
    /\ UNCHANGED <<workerVars, convo, turnVars, healthVars, contacts>>

\* ------------------------------------------------------------- health

\* The dependencies as the handler finds them. mongodb: the connection is
\* open and answers ("up"), is open but the ping rejects ("down"), or
\* readyState is not 1 ("disconnected"). chromadb: the server answers
\* ("up"), its calls reject ("down"), or initializeChroma never succeeded
\* and getChromaClient throws ("uninitialised"). groq: the model answers
\* ("up"), the call rejects or takes more than 5 s ("down"), or
\* GROQ_API_KEY is not set ("nokey").
Envs ==
    [mongodb : {"up", "down", "disconnected"},
     chromadb : {"up", "down", "uninitialised"},
     groq : {"up", "down", "nokey"}]

AllUp == [mongodb |-> "up", chromadb |-> "up", groq |-> "up"]

\* What collection.count() may resolve with.
Counts == {0, 2}

NoHealth == [pc |-> "idle"]

\* const health = { status: 'healthy', ..., dependencies: { ... 'unknown' } }
NewHealth ==
    [pc |-> "start", status |-> "healthy", mongodb |-> "unknown",
     chromadb |-> "unknown", documentCount |-> 0, groq |-> "unknown",
     code |-> 0, success |-> FALSE]

\* health.dependencies[dep] = { status: st, ... } in a branch that also sets
\* health.status = 'degraded'
Degraded(h, dep, st) == [h EXCEPT ![dep] = st, !.status = "degraded"]

\* const statusCode = health.status === 'healthy' ? 200 : 503;
\* res.status(statusCode).json({ success: health.status === 'healthy', ... })
HealthResponse(h) ==
    [h EXCEPT !.pc = "done",
              !.code = IF h.status = "healthy" THEN 200 ELSE 503,
              !.success = (h.status = "healthy")]

\* The check of Groq: without a key the branch degrades and the handler
\* answers; with a key it suspends in Promise.race of invoke and the timer.
CheckGroq(h) ==
    IF env.groq = "nokey"
    THEN HealthResponse(Degraded(h, "groq", "error"))
    ELSE [h EXCEPT !.pc = "groq_invoke"]

\* getCollectionStats has returned a count (0 from its catch block): the
\* try block of the handler reports 'connected', and Groq is next.
StatsReturned(h, n) ==
    CheckGroq([h EXCEPT !.chromadb = "connected", !.documentCount = n])

\* The check of ChromaDB: getCollectionStats suspends in count(), or first
\* in initializeCollection, where getChromaClient may throw into the catch
\* block of getCollectionStats.
CheckChroma(h) ==
    IF collection THEN [h EXCEPT !.pc = "stats_count"]
    ELSE IF env.chromadb = "uninitialised" THEN StatsReturned(h, 0)
    ELSE [h EXCEPT !.pc = "stats_init"]

\* GET /health/detailed: the handler builds `health` and tests readyState.
HealthDetailed ==
    /\ health.pc = "idle"
    /\ health' = IF env.mongodb = "disconnected"
                 THEN CheckChroma(Degraded(NewHealth, "mongodb", "disconnected"))
                 ELSE [NewHealth EXCEPT !.pc = "ping"]
    /\ UNCHANGED <<workerVars, convo, turnVars, importVars, env>>

\* admin().ping() resolves.
PingReturns ==
    /\ health.pc = "ping"
    /\ env.mongodb = "up"
    /\ health' = CheckChroma([health EXCEPT !.mongodb = "connected"])
    /\ UNCHANGED <<workerVars, convo, turnVars, importVars, env>>

\* admin().ping() rejects.
PingFails ==
    /\ health.pc = "ping"
    /\ env.mongodb # "up"
    /\ health' = CheckChroma(Degraded(health, "mongodb", "error"))
    /\ UNCHANGED <<workerVars, convo, turnVars, importVars, env>>

\* getOrCreateCollection resolves: the handle is kept and count() is called.
StatsInitReturns ==
    /\ health.pc = "stats_init"
    /\ env.chromadb = "up"
    /\ collection' = TRUE
    /\ health' = [health EXCEPT !.pc = "stats_count"]
    /\ UNCHANGED <<workerVars, convo, importVars, env, callLogs, tpc, req, lead,
                   updatedLead, retrievedContext, llmOutput, aiResult, result,
                   used, turns>>

\* getOrCreateCollection rejects: the catch block of getCollectionStats
\* returns documentCount 0.
StatsInitFails ==
    /\ health.pc = "stats_init"
    /\ env.chromadb # "up"
    /\ health' = StatsReturned(health, 0)
    /\ UNCHANGED <<workerVars, convo, turnVars, importVars, env>>

\* collection.count() resolves with n.
CountReturns(n) ==
    /\ health.pc = "stats_count"
    /\ env.chromadb = "up"
    /\ health' = StatsReturned(health, n)
    /\ UNCHANGED <<workerVars, convo, turnVars, importVars, env>>

\* collection.count() rejects: the catch block of getCollectionStats returns
\* documentCount 0.
CountFails ==
    /\ health.pc = "stats_count"
    /\ env.chromadb # "up"
    /\ health' = StatsReturned(health, 0)
    /\ UNCHANGED <<workerVars, convo, turnVars, importVars, env>>

\* The test call of the model resolves within 5 s.
GroqReturns ==
    /\ health.pc = "groq_invoke"
    /\ env.groq = "up"
    /\ health' = HealthResponse([health EXCEPT !.groq = "connected"])
    /\ UNCHANGED <<workerVars, convo, turnVars, importVars, env>>

\* The test call rejects, or the timer of 5 s rejects first.
GroqFails ==
    /\ health.pc = "groq_invoke"
    /\ env.groq # "up"
    /\ health' = HealthResponse(Degraded(health, "groq", "error"))
    /\ UNCHANGED <<workerVars, convo, turnVars, importVars, env>>

\* The response is sent and the request is over.
HealthAnswered ==
    /\ health.pc = "done"
    /\ health' = NoHealth
    /\ UNCHANGED <<workerVars, convo, turnVars, importVars, env>>

\* Between two requests a dependency goes down or comes back; a Chroma
\* client that was never initialised stays so, and one that was initialised
\* stays initialised.
EnvChanges(e) ==
    /\ health.pc = "idle"
    /\ e # env
    /\ (e.chromadb = "uninitialised") = (env.chromadb = "uninitialised")
    /\ env' = e
    /\ UNCHANGED <<workerVars, convo, turnVars, importVars, health>>

\* ------------------------------------------------------------- specifications

Idle ==
    /\ isRunning = FALSE
    /\ pc = [p \in Triggers |-> "idle"]
    /\ batch = [p \in Triggers |-> <<>>]
    /\ idx = [p \in Triggers |-> 0]
    /\ doc = [p \in Triggers |-> NoDoc]
    /\ outcome = [p \in Triggers |-> "none"]
    /\ called = [p \in Triggers |-> <<>>]

\* No request of the chat route is in flight and none has been served.
TurnIdle ==
    /\ callLogs = <<>>
    /\ collection = FALSE
    /\ tpc = [t \in TurnIds |-> "idle"]
    /\ req = [t \in TurnIds |-> NoReq]
    /\ lead = [t \in TurnIds |-> NoLead]
    /\ updatedLead = [t \in TurnIds |-> NoUpdated]
    /\ retrievedContext = [t \in TurnIds |-> <<>>]
    /\ llmOutput = [t \in TurnIds |-> NoContent]
    /\ aiResult = [t \in TurnIds |-> Undefined]
    /\ result = [t \in TurnIds |-> NoResult]
    /\ used = [t \in TurnIds |-> NoneUsed]
    /\ turns = 0

\* The stored leads are applicants and no upload is in flight.
ImportIdle ==
    /\ contacts = [i \in 1..Len(leads) |-> Applicant(i)]
    /\ upload = [u \in Uploaders |-> NoUpload]

\* No request of the health route is in flight and every dependency is up.
HealthIdle ==
    /\ env = AllUp
    /\ health = NoHealth

\* The server has started: empty collection, worker constructed.
Init ==
    /\ leads = <<>>
    /\ convo = <<>>
    /\ Idle
    /\ TurnIdle
    /\ ImportIdle
    /\ HealthIdle

Next ==
    \/ ImportLead
    \/ \E p \in Triggers : Trigger(p)
    \/ \E p \in Triggers : PassStep(p)

Spec == Init /\ [][Next]_vars

\* Every store call and every resolver call of the cron pass returns or rejects.
FairSpec == Spec /\ WF_vars(PassStep("cron"))

\* One step of the pass of caller p with the resolver of the source, which
\* resolves after its delay with one of the three outcomes and never rejects.
QueueStep(p) ==
    \/ FindReturns(p)
    \/ FindFails(p)
    \/ SaveCallingOk(p)
    \/ SaveCallingFails(p)
    \/ \E o \in Outcomes : OutcomeReturns(p, o)
    \/ SaveOutcomeOk(p)
    \/ SaveOutcomeFails(p)
    \/ SaveFailedOk(p)
    \/ SaveFailedFails(p)

QueueNext ==
    \/ ImportLead
    \/ \E p \in Triggers : Trigger(p)
    \/ \E p \in Triggers : QueueStep(p)

\* The cron keeps firing, every call of a pass returns or rejects, and the
\* store does not reject for ever: a call that is made again and again
\* succeeds at some time.
FairSpecQueue ==
    /\ Init
    /\ [][QueueNext]_vars
    /\ WF_vars(Trigger("cron"))
    /\ \A p \in Triggers :
          /\ WF_vars(QueueStep(p))
          /\ SF_vars(FindReturns(p))
          /\ SF_vars(SaveCallingOk(p))
          /\ SF_vars(SaveOutcomeOk(p))
          /\ SF_vars(SaveFailedOk(p))

\* A collection of n leads, all imported and pending, except that the lead at
\* position h (if any) has completed its first call.
Collection(n, h) ==
    [i \in 1..n |-> IF i = h THEN [status |-> "completed", attempts |-> 1] ELSE NewLead]

\* One pass of the cron callback over a collection filled by earlier uploads:
\* the callback has set isRunning and processCallQueue waits for Lead.find.
BatchInit ==
    /\ \E n \in 0..MaxBatchLeads : \E h \in 0..n :
          /\ leads = Collection(n, h)
          /\ convo = [i \in 1..n |-> NewConvo]
    /\ TurnIdle
    /\ ImportIdle
    /\ HealthIdle
    /\ isRunning = TRUE
    /\ pc = [p \in Triggers |-> IF p = "cron" THEN "find" ELSE "idle"]
    /\ batch = [p \in Triggers |-> <<>>]
    /\ idx = [p \in Triggers |-> 0]
    /\ doc = [p \in Triggers |-> NoDoc]
    /\ outcome = [p \in Triggers |-> "none"]
    /\ called = [p \in Triggers |-> <<>>]

BatchNext == PassStep("cron")

SpecBatch == BatchInit /\ [][BatchNext]_vars

\* One step of the request of turn t after the route has accepted it, the
\* collaborators answering from the sets Rs (query results) and Cs (model
\* replies).
TurnStep(t, Rs, Cs) ==
    \/ FindByIdReturns(t)
    \/ FindByIdFails(t)
    \/ RagInitReturns(t)
    \/ RagInitFails(t)
    \/ \E r \in Rs : RagQueryReturns(t, r)
    \/ RagQueryFails(t)
    \/ \E c \in Cs : LLMReturns(t, c)
    \/ LLMFails(t)
    \/ UpdateReturns(t)
    \/ UpdateFails(t)
    \/ LogReturns(t)
    \/ LogFails(t)
    \/ Respond(t)

\* A lead after two turns: the model answered the first with delta 96, the
\* second with Reply1.
Seasoned ==
    [transcript |->
        <<Entry("user", HostelQuestion),
          Entry("assistant", "I understand that the fees are a concern."),
          Entry("user", "What are the BTech fees?"),
          Entry("assistant", "The BTech fee schedule is in the brochure.")>>,
     interest_score |-> 99, course_interest |-> "BTech", summary |-> NoSummary]

InitialConvos == {NewConvo, Seasoned}

\* Turns served one after the other in a run of SpecTurn.
MaxTurns == 2

\* One imported lead, fresh or seasoned; requests of the chat route are
\* served one at a time; the worker is idle.
TurnInit ==
    /\ leads = <<NewLead>>
    /\ \E c \in InitialConvos : convo = <<c>>
    /\ Idle
    /\ TurnIdle
    /\ ImportIdle
    /\ HealthIdle

TurnNext ==
    \/ \E id \in 0..(Len(leads) + 1), msg \in Messages \cup {""} :
          turns < MaxTurns /\ ChatTest("T1", id, msg)
    \/ TurnStep("T1", QueryResults, LLMContents)

SpecTurn == TurnInit /\ [][TurnNext]_vars

\* Turns started in a run of SpecRace.
MaxRaceTurns == 2

\* The question of each of the two callers.
Question(t) == IF t = "T1" THEN "What are the BTech fees?" ELSE HostelQuestion

RaceResults ==
    {[has |-> FALSE, documents |-> <<>>],
     [has |-> TRUE, documents |-> <<(<<FeesDoc>>)>>]}

\* Turns started in a run of FairSpecTurn.
MaxFairTurns == 1

\* Requests of the chat route served one at a time, the collaborators
\* answering as in SpecRace.
FairTurnNext ==
    \/ \E id \in 0..(Len(leads) + 1), msg \in Messages \cup {""} :
          turns < MaxFairTurns /\ ChatTest("T1", id, msg)
    \/ TurnStep("T1", RaceResults, RaceContents)

\* Every collaborator call and every store call of the turn returns or
\* fails, and the route answers.
FairSpecTurn ==
    /\ TurnInit
    /\ [][FairTurnNext]_vars
    /\ WF_vars(TurnStep("T1", RaceResults, RaceContents))

\* Two imported leads, the first fresh or seasoned; two requests of the chat
\* route may be in flight together, on the same lead or not.
RaceInit ==
    /\ leads = <<NewLead, NewLead>>
    /\ \E c \in InitialConvos : convo = <<c, NewConvo>>
    /\ Idle
    /\ TurnIdle
    /\ ImportIdle
    /\ HealthIdle

RaceNext ==
    \E t \in TurnIds :
        \/ \E id \in LeadIds(leads) :
              turns < MaxRaceTurns /\ ChatTest(t, id, Question(t))
        \/ TurnStep(t, RaceResults, RaceContents)

SpecRace == RaceInit /\ [][RaceNext]_vars

\* Turns started in a run of SpecSystem.
MaxSystemTurns == 1

\* The server has started on an empty store, or on a store that holds one
\* seasoned lead.
SystemInit ==
    /\ \/ leads = <<>> /\ convo = <<>>
       \/ leads = <<NewLead>> /\ convo = <<Seasoned>>
    /\ Idle
    /\ TurnIdle
    /\ ImportIdle
    /\ HealthIdle

\* The whole server: the upload route, the worker started by cron and the
\* chat route, serving one request at a time for the oldest lead.
SystemNext ==
    \/ ImportLead
    \/ Trigger("cron")
    \/ PassStep("cron")
    \/ /\ turns < MaxSystemTurns
       /\ Len(leads) >= 1
       /\ ChatTest("T1", 1, Question("T1"))
    \/ TurnStep("T1", RaceResults, RaceContents)

SpecSystem == SystemInit /\ [][SystemNext]_vars

\* Rows in a file of a run of SpecImport.
MaxRows == 2

RECURSIVE Files(_)
\* The files of at most n rows.
Files(n) ==
    IF n = 0 THEN {<<>>}
    ELSE Files(n - 1) \cup
         {Append(f, r) : f \in {g \in Files(n - 1) : Len(g) = n - 1}, r \in Rows}

\* The file of the second request: a new applicant twice, then another.
OtherFile == <<RowNew, RowNew, RowOther>>

\* One step of the upload request u.
UploadStep(u) ==
    \/ ParseEnds(u)
    \/ ParseFails(u)
    \/ CreateReturns(u)
    \/ \E f \in {"email", "phone"} : CreateDuplicate(u, f)
    \/ CreateInvalid(u)
    \/ CreateFails(u)
    \/ UploadRespond(u)

\* The store holds the first applicant, whose call is over.
ImportInit ==
    /\ leads = <<[status |-> "completed", attempts |-> 1]>>
    /\ convo = [i \in 1..Len(leads) |-> Seasoned]
    /\ Idle
    /\ TurnIdle
    /\ ImportIdle
    /\ HealthIdle

\* Two requests of the upload route, in flight together or not: one with
\* any file, or none, and one with OtherFile.
ImportNext ==
    \/ \E has \in BOOLEAN, file \in Files(MaxRows) : UploadLeads("U1", has, file)
    \/ UploadLeads("U2", TRUE, OtherFile)
    \/ \E u \in Uploaders : UploadStep(u)

SpecImport == ImportInit /\ [][ImportNext]_vars

\* The server has started with its dependencies in any condition; the
\* health route serves one request at a time.
HealthInit ==
    /\ leads = <<>>
    /\ convo = <<>>
    /\ Idle
    /\ TurnIdle
    /\ ImportIdle
    /\ env \in Envs
    /\ health = NoHealth

HealthNext ==
    \/ HealthDetailed
    \/ PingReturns
    \/ PingFails
    \/ StatsInitReturns
    \/ StatsInitFails
    \/ \E n \in Counts : CountReturns(n)
    \/ CountFails
    \/ GroqReturns
    \/ GroqFails
    \/ HealthAnswered
    \/ \E e \in Envs : EnvChanges(e)

SpecHealth == HealthInit /\ [][HealthNext]_vars

\* ------------------------------------------------------------- claims

ActivePasses == {p \in Triggers : pc[p] # "idle"}

Terminal == {"completed", "failed"}

\* The stored transitions of the state flow.
LegalTransitions ==
    {<<"pending", "calling">>, <<"calling", "completed">>,
     <<"calling", "failed">>, <<"calling", "pending">>}

\* C1: at most one pass of processCallQueue is active at any time, whichever
\* trigger (periodic or manual) started it.
C1_AtMostOnePass == Cardinality(ActivePasses) <= 1

\* C2: isRunning is true exactly when a pass is active.
C2_GuardIffPassActive == isRunning <=> (ActivePasses # {})

\* C5: once a lead's stored status is completed or failed it never changes.
C5_TerminalIsFinal ==
    [][\A l \in LeadIds(leads) :
         leads[l].status \in Terminal => leads'[l].status = leads[l].status]_vars

\* C6: the stored attempts of a lead never decreases and grows by exactly one
\* with each stored transition into calling, and at no other time.
C6_AttemptsCountCalling ==
    [][\A l \in LeadIds(leads) :
         leads'[l].attempts = leads[l].attempts +
            (IF leads[l].status # "calling" /\ leads'[l].status = "calling"
             THEN 1 ELSE 0)]_vars

\* C7: the stored status of a lead changes only pending -> calling and
\* calling -> completed, failed or pending.
C7_OnlyTableTransitions ==
    [][\A l \in LeadIds(leads) :
         leads'[l].status # leads[l].status =>
            <<leads[l].status, leads'[l].status>> \in LegalTransitions]_vars

\* C8: retry is bounded at 3 attempts: the stored attempts of a lead, imported
\* with attempts 0, never exceeds 3.
C8_RetryBounded ==
    \A l \in LeadIds(leads) : leads[l].attempts <= MAX_ATTEMPTS

\* The iteration of caller p ends in this step: the loop moves on or returns.
IterationEnds(p) ==
    /\ pc[p] \in {"save_outcome", "save_failed"}
    /\ pc'[p] \in {"save_calling", "idle"}

\* The transition table of the state machine, row by row.
TableStatus(o, att) ==
    CASE o = "completed" -> "completed"
      [] o = "no_answer" /\ att >= 3 -> "failed"
      [] o = "no_answer" /\ att < 3 -> "pending"
      [] o = "failed" -> "failed"
      [] OTHER -> "failed"

\* C3: the worker cannot get stuck: the guard is released whenever the cron
\* pass is not running, so the next periodic trigger starts a pass, and a
\* guard that is held is released again, also by a pass whose query fails or
\* whose leads all fail.
C3_GuardAlwaysReleased ==
    /\ [](pc["cron"] = "idle" => GuardAllows("cron", isRunning))
    /\ (isRunning ~> ~isRunning)

\* A pass holds the guard while the processing of its last lead has thrown.
C3_Witness ==
    /\ isRunning
    /\ pc["cron"] = "save_failed"
    /\ Len(batch["cron"]) = 1

PendingIds(ls) == {l \in LeadIds(ls) : ls[l].status = "pending"}

Min(a, b) == IF a <= b THEN a ELSE b

BatchIds(p) == {batch[p][i].id : i \in 1..Len(batch[p])}

\* C9 as stated: every pass that starts with n pending leads processes
\* min(n, 5) leads.
C9_ProcessesMinOfPendingAndFive ==
    [][\A p \in Triggers :
         (pc[p] = "find" /\ pc'[p] # "find") =>
            Len(batch'[p]) = Min(Cardinality(PendingIds(leads)), BATCH_LIMIT)]_vars

\* C9 amended: when the query of a pass returns leads, they are min(n, 5)
\* pending leads in creation order and no pending lead left out is older than
\* one of them; the pass handles them one by one, in that order, up to the
\* last; it writes no other lead; a pass whose query fails or finds nothing
\* writes no lead.
C9_BatchIsOldestFive ==
    [][\A p \in Triggers :
         /\ (pc[p] = "find" /\ pc'[p] = "save_calling") =>
               /\ Len(batch'[p]) = Min(Cardinality(PendingIds(leads)), BATCH_LIMIT)
               /\ BatchIds(p)' \subseteq PendingIds(leads)
               /\ \A i, j \in 1..Len(batch'[p]) : i < j => batch'[p][i].id < batch'[p][j].id
               /\ \A l \in PendingIds(leads) \ BatchIds(p)' :
                     \A m \in BatchIds(p)' : m < l
               /\ idx'[p] = 1
         /\ (pc[p] = "find" /\ pc'[p] = "idle") => leads' = leads
         /\ (pc[p] \notin {"idle", "find"}) =>
               /\ doc[p].id = Head(batch[p]).id
               /\ \A l \in LeadIds(leads) :
                     l # doc[p].id /\ pc'[p] # pc[p] => leads'[l] = leads[l]
               /\ pc'[p] = "idle" => Len(batch[p]) = 1
               /\ (pc'[p] # "idle" /\ ~IterationEnds(p)) =>
                     batch'[p] = batch[p] /\ idx'[p] = idx[p]
               /\ (pc'[p] # "idle" /\ IterationEnds(p)) =>
                     batch'[p] = Tail(batch[p]) /\ idx'[p] = idx[p] + 1]_vars

\* A pass over 7 pending leads is at its fifth and last lead; the 2 youngest
\* leads are pending and untouched.
C9_Witness ==
    /\ Len(leads) = 7
    /\ pc["cron"] = "save_outcome"
    /\ idx["cron"] = BATCH_LIMIT
    /\ Len(batch["cron"]) = 1
    /\ doc["cron"].id = 5
    /\ \A l \in 1..4 : leads[l].attempts = 1
    /\ \A l \in {6, 7} : leads[l] = NewLead

\* C10: within one pass each lead is stored as calling at most once.
C10_CalledOncePerPass ==
    \A p \in Triggers :
        \A i, j \in 1..Len(called[p]) : i # j => called[p][i] # called[p][j]

\* The pass has called its first lead, which is pending again after
\* no_answer, and has moved on to a later lead.
C10_Witness ==
    /\ pc["cron"] = "outcome"
    /\ idx["cron"] >= 2
    /\ Len(called["cron"]) >= 2
    /\ leads[called["cron"][1]] = [status |-> "pending", attempts |-> 1]

\* The iteration of caller p ends in its catch block.
ErrorIterationEnds(p) == IterationEnds(p) /\ pc[p] = "save_failed"

\* The loop of caller p goes on with the next lead of the batch, loaded at
\* the start of the pass, on a fresh iteration.
NextLeadStarts(p) ==
    Len(batch[p]) > 1 =>
        /\ pc'[p] = "save_calling"
        /\ doc'[p] = BeginCall(batch[p][2])
        /\ outcome'[p] = "none"

C12_NoLeadStuckInCalling ==
    [][\A p \in Triggers :
         (pc[p] \notin {"idle", "find"} /\ pc'[p] = "idle") =>
            \A l \in {called[p][i] : i \in 1..Len(called[p])} \cup {doc[p].id} :
                leads'[l].status # "calling"]_vars

\* ------------------------------------------------------------- claims: turns

Sentinels == {NO_CONTEXT, RETRIEVAL_FAILED}

\* The stored lead of turn t.
TurnLead(t) == req[t].leadId

\* The two entries of turn t, as it has them in hand.
TurnEntries(t) ==
    <<Entry("user", req[t].userMessage), Entry("assistant", aiResult[t].response.s)>>

\* Turn t is handed the result of its update / its processMessage returns.
UpdateDone(t) == tpc[t] = "update" /\ tpc'[t] = "log"

TurnReturns(t) == tpc[t] = "log" /\ tpc'[t] = "done" /\ result'[t].kind = "ok"

\* C13: if retrieval returns the no-context text or the retrieval-failure
\* text, the turn never calls the model; the record of the turn, the
\* assistant entry it stores and the response it returns carry exactly the
\* handoff text, handoff_required = true and delta 0 (the score it writes is
\* the score it read).
C13_GroundingGate ==
    /\ [](\A t \in TurnIds :
            retrievedContext[t] \in Sentinels =>
               /\ used[t].generation = 0
               /\ tpc[t] \in {"update", "log"}
               /\ aiResult[t].response = Str(HANDOFF_TEXT)
               /\ aiResult[t].handoff_required = Bool(TRUE)
               /\ aiResult[t].interest_score_delta = Num(0))
    /\ [][\A t \in TurnIds :
            retrievedContext[t] \in Sentinels =>
               /\ UpdateDone(t) =>
                     /\ convo'[TurnLead(t)].transcript[Len(convo'[TurnLead(t)].transcript)]
                           = Entry("assistant", HANDOFF_TEXT)
                     /\ convo'[TurnLead(t)].interest_score = lead[t].interest_score
               /\ TurnReturns(t) =>
                     /\ result'[t].response = HANDOFF_TEXT
                     /\ result'[t].handoff_required
                     /\ used'[t].generation = 0]_vars

\* A turn whose retrieval found nothing has stored the handoff exchange.
C13_Witness ==
    /\ tpc["T1"] = "log"
    /\ retrievedContext["T1"] = NO_CONTEXT
    /\ used["T1"] = [retrieval |-> 1, generation |-> 0]
    /\ convo[1].transcript = <<Entry("user", HostelQuestion),
                               Entry("assistant", HANDOFF_TEXT)>>

PersistenceErrors == {"findByIdAndUpdate rejected", "CallLog.create rejected"}

\* C14: a retrieval failure (initializeCollection throws, the query rejects)
\* never aborts the turn: retrieveContext returns instead of raising, the
\* turn goes on with the handoff record, its update appends the user entry
\* and the handoff entry, and it ends with the handoff response unless a
\* store call of its own is rejected.
C14_RetrievalFailureDegrades ==
    /\ [][\A t \in TurnIds :
            (tpc[t] \in {"rag_init", "rag_query"} /\ tpc'[t] # tpc[t]) =>
               /\ tpc'[t] \in {"rag_query", "llm_invoke", "update"}
               /\ result'[t].kind = "none"]_vars
    /\ [](\A t \in TurnIds :
            retrievedContext[t] = RETRIEVAL_FAILED =>
               tpc[t] \in {"update", "log"} /\ aiResult[t] = HandoffRecord)
    /\ [][\A t \in TurnIds :
            retrievedContext[t] = RETRIEVAL_FAILED =>
               /\ UpdateDone(t) =>
                     convo'[TurnLead(t)].transcript =
                        convo[TurnLead(t)].transcript \o
                           <<Entry("user", req[t].userMessage),
                             Entry("assistant", HANDOFF_TEXT)>>
               /\ tpc'[t] = "done" =>
                     \/ result'[t].kind = "ok" /\ result'[t].response = HANDOFF_TEXT
                     \/ result'[t].kind = "error" /\ result'[t].error \in PersistenceErrors]_vars

\* The collaborator could not be initialised in this turn, and the turn has
\* stored its two entries.
C14_Witness ==
    /\ tpc["T1"] = "log"
    /\ ~collection
    /\ retrievedContext["T1"] = RETRIEVAL_FAILED
    /\ Len(convo[1].transcript) = Len(lead["T1"].transcript) + 2

\* The primitive type a field of the record must have.
RequiredType(f) ==
    CASE f = "interest_score_delta" -> "number"
      [] f = "handoff_required" -> "boolean"
      [] OTHER -> "string"

\* The reply is one record of which some field is absent or has the wrong
\* primitive type.
Rejected(c) ==
    /\ c.text = <<"{", "members", "}">>
    /\ \E f \in Fields : TypeOf(c.members[f]) # RequiredType(f)

\* C15: if the record of the model lacks one of the six fields or has one of
\* the wrong primitive type, the record of the turn is the complete fallback
\* record; the update stores the fallback text, the score the turn read and
\* no course; the CallLog and the response carry the fallback values; and
\* the call of the model never ends the turn with an error.
C15_InvalidOutputGivesFallback ==
    /\ [](\A t \in TurnIds :
            Rejected(llmOutput[t]) =>
               tpc[t] \in {"update", "log"} /\ aiResult[t] = FallbackRecord)
    /\ [][\A t \in TurnIds :
            /\ (tpc[t] = "llm_invoke" /\ tpc'[t] # "llm_invoke") =>
                  tpc'[t] = "update" /\ result'[t].kind = "none"
            /\ Rejected(llmOutput[t]) =>
                  /\ UpdateDone(t) =>
                        convo'[TurnLead(t)] =
                           [convo[TurnLead(t)] EXCEPT
                              !.transcript = @ \o <<Entry("user", req[t].userMessage),
                                                    Entry("assistant", FALLBACK_TEXT)>>,
                              !.interest_score = lead[t].interest_score,
                              !.summary = convo'[TurnLead(t)].summary]
                  /\ TurnReturns(t) =>
                        /\ callLogs' = Append(callLogs,
                              [leadId |-> TurnLead(t), duration |-> 0,
                               intents |-> <<"general">>, objection_detected |-> "",
                               handoff_required |-> FALSE,
                               raw_transcript |-> <<"User: ", req[t].userMessage,
                                                    "\nAI: ", FALLBACK_TEXT>>])
                        /\ result'[t].response = FALLBACK_TEXT
                        /\ result'[t].intent = "general"
                        /\ ~result'[t].handoff_required]_vars

\* The model left out objection_detected; the turn has stored the fallback
\* text and kept score and course of the lead.
C15_Witness ==
    /\ tpc["T1"] = "log"
    /\ llmOutput["T1"] = Bare([Reply1 EXCEPT !.objection_detected = Undefined])
    /\ convo[1] = [NewConvo EXCEPT
                     !.transcript = <<Entry("user", "What are the BTech fees?"),
                                      Entry("assistant", FALLBACK_TEXT)>>]

\* clamp(x, 0, 100) as the specification writes it.
Clamp(x, lo, hi) == IF x < lo THEN lo ELSE IF x > hi THEN hi ELSE x

\* C16: under every interleaving of concurrent turns and for every delta,
\* the stored interest_score of every lead is within [0,100], and the update
\* of a turn writes clamp(s + delta, 0, 100), s being the score of the lead
\* the turn has loaded.
C16_ScoreStaysClamped ==
    /\ [](\A l \in LeadIds(leads) :
            convo[l].interest_score >= 0 /\ convo[l].interest_score <= 100)
    /\ [][\A t \in TurnIds :
            UpdateDone(t) =>
               convo'[TurnLead(t)].interest_score =
                  Clamp(lead[t].interest_score + aiResult[t].interest_score_delta.n,
                        0, 100)]_vars

\* Two turns are in flight on the seasoned lead (score 99); the one that
\* got delta 250 has written 100.
C16_Witness ==
    /\ tpc["T1"] = "log"
    /\ tpc["T2"] \in {"rag_init", "rag_query", "llm_invoke", "update"}
    /\ TurnLead("T1") = 1 /\ TurnLead("T2") = 1
    /\ lead["T1"].interest_score = 99
    /\ lead["T2"].interest_score = 99
    /\ aiResult["T1"].interest_score_delta = Num(250)
    /\ convo[1].interest_score = 100

IsPrefix(a, b) == Len(a) <= Len(b) /\ SubSeq(b, 1, Len(a)) = a

\* Both turns are in flight on the same lead and both updates are done.
BothUpdated == 
    /\ tpc["T1"] = "log" /\ tpc["T2"] = "log"
    /\ TurnLead("T1") = TurnLead("T2")

\* The two entries of turn t stand next to each other in transcript tr, at
\* position i, after what t has read.
PairAt(t, tr, i) ==
    /\ i > Len(lead[t].transcript)
    /\ i + 1 <= Len(tr)
    /\ SubSeq(tr, i, i + 1) = TurnEntries(t)

\* C17: two concurrent turns on the same lead each append their 2 entries:
\* whatever the order of their reads and writes, once both updates are done
\* the stored transcript extends what each turn has read and holds the user
\* entry of each turn immediately before its assistant entry, the two pairs
\* apart; and when no third turn has written since the first of the two
\* read the lead (the other has read the same transcript, or that
\* transcript with the pair of the first), the transcript is the initial
\* one followed by the two pairs in either order: initial length + 4.
C17_ConcurrentTurnsKeepAllEntries ==
    BothUpdated =>
        LET tr == convo[TurnLead("T1")].transcript
        IN  /\ \A t \in TurnIds : IsPrefix(lead[t].transcript, tr)
            /\ \E i, j \in 1..Len(tr) :
                  i # j /\ PairAt("T1", tr, i) /\ PairAt("T2", tr, j)
            /\ \A a, b \in TurnIds :
                  (/\ a # b
                   /\ lead[b].transcript \in
                         {lead[a].transcript, lead[a].transcript \o TurnEntries(a)}) =>
                     /\ tr \in {lead[a].transcript \o TurnEntries(a) \o TurnEntries(b),
                                lead[a].transcript \o TurnEntries(b) \o TurnEntries(a)}
                     /\ Len(tr) = Len(lead[a].transcript) + 4

\* Both turns have read the seasoned lead before either wrote, they carry
\* different questions, and both updates are done.
C17_Witness ==
    /\ BothUpdated
    /\ lead["T1"].transcript = Seasoned.transcript
    /\ lead["T2"].transcript = Seasoned.transcript
    /\ req["T1"].userMessage # req["T2"].userMessage
    /\ Len(convo[1].transcript) = 8

\* C18: the transcript is append-only: every step of the upload route, the
\* worker and a turn leaves the transcript of every lead as it is or
\* extends it, so every earlier value is a prefix of every later one.
C18_TranscriptAppendOnly ==
    [][\A l \in LeadIds(leads) :
         IsPrefix(convo[l].transcript, convo'[l].transcript)]_vars

\* The seasoned lead has got the two entries of one more turn and a pass of
\* the worker is saving it.
C18_Witness ==
    /\ Len(leads) = 1
    /\ Len(convo[1].transcript) = 6
    /\ IsPrefix(Seasoned.transcript, convo[1].transcript)
    /\ pc["cron"] = "save_outcome"
    /\ doc["cron"].id = 1

\* C19: a persistence failure is surfaced: when the update of the lead does
\* not go through (the step out of findByIdAndUpdate leaves the stored lead
\* as it was), processMessage throws that error, returns no response and
\* creates no CallLog; a CallLog is only created by a turn whose update is
\* done.
C19_UpdateFailureSurfaced ==
    [][/\ \A t \in TurnIds :
            /\ (tpc[t] = "update" /\ tpc'[t] # "update" /\ convo' = convo) =>
                  /\ tpc'[t] = "done"
                  /\ result'[t].kind = "error"
                  /\ result'[t].error = "findByIdAndUpdate rejected"
                  /\ "response" \notin DOMAIN result'[t]
                  /\ callLogs' = callLogs
            /\ (tpc[t] = "update" /\ tpc'[t] = "log") => convo' # convo
       /\ callLogs' # callLogs =>
            \E t \in TurnIds : tpc[t] = "log" /\ TurnReturns(t)]_vars

\* The update of a turn on the seasoned lead was rejected: the route holds
\* the error, the lead is as it was and there is no CallLog.
C19_Witness ==
    /\ tpc["T1"] = "done"
    /\ result["T1"] = Failure("findByIdAndUpdate rejected")
    /\ used["T1"].retrieval = 1
    /\ convo = <<Seasoned>>
    /\ callLogs = <<>>

\* C20: a turn whose lead identifier resolves to no lead (findById resolves
\* with null) throws 'Lead not found' before any collaborator is used:
\* retrieval and generation are not called and no lead and no CallLog is
\* written; when the look-up itself is rejected the turn ends in the same
\* way with the error of the store.
C20_UnknownLeadFailsFirst ==
    [][\A t \in TurnIds :
         (tpc[t] = "find" /\ tpc'[t] # "find" /\ req[t].leadId \notin LeadIds(leads)) =>
            /\ tpc'[t] = "done"
            /\ result'[t].kind = "error"
            /\ result'[t].error # "findById rejected" => result'[t].error = "Lead not found"
            /\ used'[t] = NoneUsed
            /\ leads' = leads
            /\ convo' = convo
            /\ callLogs' = callLogs
            /\ collection' = collection]_vars

\* The second turn named a lead that does not exist: it has failed with
\* 'Lead not found' and no collaborator was called.
C20_Witness ==
    /\ turns = 2
    /\ tpc["T1"] = "done"
    /\ result["T1"] = Failure("Lead not found")
    /\ used["T1"] = NoneUsed
    /\ Len(callLogs) = 1

\* ------------------------------------------------------------- claims: import and persistence

\* Lead i, with every stored path.
Stored(i) == <<leads[i], contacts[i], convo[i]>>

\* Request u is handed the result of the Lead.create of its current row.
CreateDone(u) == upload[u].pc = "create" /\ upload'[u] # upload[u]

\* The current row of u has the phone or (in lower case) the email of a
\* stored lead.
TakenRow(u) ==
    LET d == Head(upload[u].rows)
    IN  \E i \in LeadIds(leads) :
           \/ contacts[i].phone = d.phone
           \/ ToLowerCase(contacts[i].email) = ToLowerCase(d.email)

\* C21: no two leads share a phone or (in lower case) an email; the create
\* of a row whose phone or email is taken inserts nothing and the loop goes
\* on with the next row instead of failing the request; every create leaves
\* the stored leads as they are; and a row that is inserted gets status
\* pending, attempts 0 and score 0.
C21_PhoneAndEmailUnique ==
    /\ [](\A i, j \in LeadIds(leads) :
            i # j =>
               /\ contacts[i].phone # contacts[j].phone
               /\ ToLowerCase(contacts[i].email) # ToLowerCase(contacts[j].email))
    /\ [][\A u \in Uploaders :
            CreateDone(u) =>
               /\ \A i \in LeadIds(leads) : Stored(i)' = Stored(i)
               /\ Len(leads') \in {Len(leads), Len(leads) + 1}
               /\ TakenRow(u) =>
                     /\ Len(leads') = Len(leads)
                     /\ \/ upload'[u].pc = "create" /\ upload'[u].rows = Tail(upload[u].rows)
                        \/ upload'[u].pc = "done" /\ upload'[u].kind = "ok"
               /\ Len(leads') = Len(leads) + 1 =>
                     /\ leads'[Len(leads')] = [status |-> "pending", attempts |-> 0]
                     /\ convo'[Len(leads')].interest_score = 0
                     /\ contacts'[Len(leads')] = LeadData(Head(upload[u].rows))]_vars

\* A file with a new applicant and a row with the phone of the stored one:
\* the latter was skipped for its phone, the former is stored behind the
\* applicant, who is as before.
C21_Witness ==
    /\ upload["U1"].pc = "done"
    /\ upload["U1"].kind = "ok"
    /\ upload["U1"].skipped = 1
    /\ upload["U1"].inserted = 1
    /\ upload["U1"].duplicates[1].field = "phone"
    /\ Len(leads) = 2
    /\ leads[1] = [status |-> "completed", attempts |-> 1]
    /\ contacts[2] = [name |-> "Dev", phone |-> "221", email |-> "dev@x.io"]

\* The turns whose update of lead l goes through in this step.
Persisting(l) == {t \in TurnIds : UpdateDone(t) /\ TurnLead(t) = l}

\* C22: the paths of a lead that a turn writes change in one step only, the
\* step in which the update of one turn on that lead goes through: it
\* appends the user entry and then the assistant entry of that turn, sets
\* interest_score to the clamped score of the turn and course_interest to
\* the course the turn detected (if any); so in every step the transcript
\* grows by twice the number of turns that persist in it, and no state
\* holds one entry of a turn, or its entries without its score.
C22_TurnPersistsInOneUpdate ==
    [][\A l \in LeadIds(leads) :
         /\ Len(convo'[l].transcript) =
               Len(convo[l].transcript) + 2 * Cardinality(Persisting(l))
         /\ Persisting(l) = {} => convo'[l] = convo[l]
         /\ \A t \in Persisting(l) :
               /\ convo'[l].transcript =
                     convo[l].transcript \o
                        <<Entry("user", req[t].userMessage),
                          Entry("assistant", aiResult[t].response.s)>>
               /\ convo'[l].interest_score =
                     Clamp(lead[t].interest_score + aiResult[t].interest_score_delta.n,
                           0, 100)
               /\ convo'[l].course_interest =
                     IF aiResult[t].course_detected.s # ""
                     THEN aiResult[t].course_detected.s
                     ELSE convo[l].course_interest]_vars

\* The first turn on the fresh lead has persisted: the lead holds its two
\* entries, the score and the course of its record.
C22_Witness ==
    /\ tpc["T1"] = "log"
    /\ TurnLead("T1") = 2
    /\ aiResult["T1"] = Reply3
    /\ convo[2] = [transcript |-> <<Entry("user", "What are the BTech fees?"),
                                   Entry("assistant", Reply3.response.s)>>,
                   interest_score |-> 100, course_interest |-> "BTech",
                   summary |-> NoSummary]

\* The last n elements of seq (all of them when it has fewer).
Suffix(seq, n) == SubSeq(seq, IF Len(seq) > n THEN Len(seq) - n + 1 ELSE 1, Len(seq))

\* The history turn t hands to the model: what it has read and its message.
History(t) == lead[t].transcript \o <<Entry("user", req[t].userMessage)>>

\* C23 as stated: the update of a turn sets the summary if the transcript
\* stored before the turn has more than 4 entries, and leaves it unchanged
\* otherwise.
C23_SummaryIffPreTurnOverFour ==
    [][\A t \in TurnIds :
         UpdateDone(t) =>
            IF Len(convo[TurnLead(t)].transcript) > 4
            THEN convo'[TurnLead(t)].summary.entries # <<>>
            ELSE convo'[TurnLead(t)].summary = convo[TurnLead(t)].summary]_vars

\* C23, amended: the update of a turn sets the summary if and only if the
\* transcript the turn has read, with the new user message added, exceeds 4
\* entries (the transcript read has 4 or more); otherwise it leaves the
\* summary unchanged. A summary that is set is made of the last 6 entries of
\* that history and the assistant entry of the turn (7 entries at most),
\* cut to 500 characters.
C23_SummaryIffHistoryWithMessageOverFour ==
    [][\A t \in TurnIds :
         UpdateDone(t) =>
            LET recent == Suffix(History(t), 6) \o
                             <<Entry("assistant", aiResult[t].response.s)>>
                summary == convo'[TurnLead(t)].summary
            IN  IF Len(History(t)) > 4
                THEN /\ summary.entries = recent
                     /\ Len(summary.entries) <= 7
                     /\ summary.len = (IF JoinedChars(recent) > 500
                                       THEN 500 ELSE JoinedChars(recent))
                     /\ summary.len <= 500
                ELSE summary = convo[TurnLead(t)].summary]_vars

\* The transcript read had exactly 4 entries: the summary is set, from the
\* 4 entries, the long question and the handoff text (6 entries), and it is
\* cut to 500 characters.
C23_Witness ==
    /\ tpc["T2"] = "log"
    /\ TurnLead("T2") = 1
    /\ lead["T2"].transcript = Seasoned.transcript
    /\ Len(convo[1].transcript) = 6
    /\ Len(convo[1].summary.entries) = 6
    /\ JoinedChars(convo[1].summary.entries) > 500
    /\ convo[1].summary.len = 500

\* The CallLogs of lead l.
LogsOf(l) == {i \in 1..Len(callLogs) : callLogs[i].leadId = l}

\* C24: the CallLog collection changes only in the step in which a turn
\* returns, after its update of the lead went through: that step appends
\* one CallLog, with the lead, the intent, the objection text and the
\* handoff flag of the turn, and leaves every earlier CallLog as it is; a
\* turn that returns creates exactly one. So a lead never has more CallLogs
\* than persisted turns (two transcript entries each).
C24_OneCallLogPerTurn ==
    /\ [][/\ callLogs' # callLogs =>
               \E t \in TurnIds :
                  /\ TurnReturns(t)
                  /\ \E i \in 1..Len(convo[TurnLead(t)].transcript) :
                        PairAt(t, convo[TurnLead(t)].transcript, i)
                  /\ callLogs' = Append(callLogs,
                        [leadId |-> TurnLead(t), duration |-> 0,
                         intents |-> <<aiResult[t].intent.s>>,
                         objection_detected |-> aiResult[t].objection_detected.s,
                         handoff_required |-> aiResult[t].handoff_required.b,
                         raw_transcript |-> <<"User: ", req[t].userMessage, "\nAI: ",
                                              aiResult[t].response.s>>])
          /\ \A t \in TurnIds :
               TurnReturns(t) => Len(callLogs') = Len(callLogs) + 1]_vars
    /\ [](\A l \in LeadIds(leads) :
            2 * Cardinality(LogsOf(l)) <= Len(convo[l].transcript))

\* Two turns on the fresh lead have returned: it has two CallLogs, the
\* first with the objection and the handoff flag of its turn, and four
\* transcript entries.
C24_Witness ==
    /\ Len(callLogs) = 2
    /\ LogsOf(2) = {1, 2}
    /\ callLogs[1].objection_detected = "fees too high"
    /\ callLogs[1].handoff_required
    /\ callLogs[2].intents = <<"course_inquiry">>
    /\ Len(convo[2].transcript) = 4

\* What a pass keeps between its steps, and the guard.
passVars == <<isRunning, pc, batch, idx, doc, outcome, called>>

\* C25: a step of a pass of the worker leaves transcript, interest_score,
\* course_interest and summary of every lead as they are, and a step of a
\* conversation turn leaves status and attempts of every lead as they are,
\* in every interleaving of a pass and a turn on the same lead; a step that
\* changes status or attempts of a lead is not a step of a turn, and a step
\* that changes a conversation path is not a step of a pass.
C25_WorkerAndTurnWriteDisjointFields ==
    [][/\ passVars' # passVars => convo' = convo
       /\ turnVars' # turnVars => leads' = leads
       /\ \A l \in LeadIds(leads) :
             /\ leads'[l] # leads[l] =>
                   /\ convo' = convo /\ turnVars' = turnVars
                   /\ passVars' # passVars
             /\ convo'[l] # convo[l] =>
                   /\ leads' = leads /\ passVars' = passVars
                   /\ turnVars' # turnVars]_vars

\* A pass and a turn are at work on the same lead: the pass has stored it
\* as calling and waits for the outcome, the turn has stored its two
\* entries and waits for its CallLog.
C25_Witness ==
    /\ Len(leads) = 1
    /\ pc["cron"] = "outcome"
    /\ leads[1] = [status |-> "calling", attempts |-> 1]
    /\ tpc["T1"] = "log"
    /\ lead["T1"].transcript = Seasoned.transcript
    /\ Len(convo[1].transcript) = 6

\* What turn t holds: its position, its locals and its result.
Locals(t) ==
    <<tpc[t], req[t], lead[t], updatedLead[t], retrievedContext[t], llmOutput[t],
      aiResult[t], result[t], used[t]>>

\* Turn t takes a step.
Steps(t) == Locals(t)' # Locals(t)

\* The lead that the step of turn t is about (0: none).
StepLead(t) == IF tpc[t] = "idle" THEN req'[t].leadId ELSE req[t].leadId

\* C26: a step of a turn on lead A leaves every stored path of every other
\* lead as it is and leaves what every other turn holds (its locals and its
\* result) as it is; what the turn writes and returns is computed from what
\* it has read of A and from the answers it got itself: the score from the
\* score it read and its delta, the response and the flags from its record.
C26_TurnsOnOtherLeadsIndependent ==
    [][\A t \in TurnIds :
         Steps(t) =>
            /\ \A l \in LeadIds(leads) : l # StepLead(t) => Stored(l)' = Stored(l)
            /\ \A o \in TurnIds \ {t} : Locals(o)' = Locals(o)
            /\ TurnReturns(t) =>
                  /\ result'[t].response = aiResult[t].response.s
                  /\ result'[t].intent = aiResult[t].intent.s
                  /\ result'[t].handoff_required = aiResult[t].handoff_required.b
                  /\ (\A o \in TurnIds \ {t} : TurnLead(o) # TurnLead(t)) =>
                        result'[t].lead.interest_score =
                           Clamp(lead[t].interest_score
                                    + aiResult[t].interest_score_delta.n, 0, 100)]_vars

\* Two turns are in flight on different leads and both have stored their
\* entries: each lead holds the entries of its own turn only.
C26_Witness ==
    /\ tpc["T1"] = "log" /\ tpc["T2"] = "log"
    /\ TurnLead("T1") = 1 /\ TurnLead("T2") = 2
    /\ convo[1].transcript = lead["T1"].transcript \o TurnEntries("T1")
    /\ convo[2].transcript = TurnEntries("T2")
    /\ convo[2].interest_score = 0
    /\ convo[1].interest_score = 100

\* The statuses the code assigns: the schema default and the upload route
\* (pending), the worker before the call (calling) and its outcome chain.
WrittenStatuses == {"pending", "calling", "completed", "failed"}

C28_TurnMovesScoreByAtMostThree ==
    [][\A t \in TurnIds :
         UpdateDone(t) =>
            convo'[TurnLead(t)].interest_score - lead[t].interest_score
                \in -3..3]_vars

\* The awaits of processMessage in the order of its statements: from each
\* position of a turn, the positions its next step may reach (done: the call
\* has returned or thrown).
After(at) ==
    CASE at = "idle" -> {"find", "done"}
      [] at = "find" -> {"rag_init", "rag_query", "done"}
      [] at = "rag_init" -> {"rag_query", "update"}
      [] at = "rag_query" -> {"llm_invoke", "update"}
      [] at = "llm_invoke" -> {"update"}
      [] at = "update" -> {"log", "done"}
      [] at = "log" -> {"done"}
      [] OTHER -> {"idle"}

\* The record turn t persists is fixed: the handoff record of the gate, the
\* fallback record, or the validated record of the model's output.
RecordFixed(t) ==
    \/ aiResult[t] \in {HandoffRecord, FallbackRecord}
    \/ IsValid(aiResult[t]) /\ aiResult[t] = llmOutput[t].members

\* C29: within one turn the steps run in the order lead load, retrieval,
\* grounding gate, generation, validation, persistence, CallLog: retrieval
\* is called only when the lead is loaded, generation is invoked only in the
\* step in which retrieval returns a context that passes the gate, the
\* record is set only on the way to the update, a lead is written only by a
\* turn at its update whose record is fixed and stays as it is, and a
\* CallLog is created only by a turn past its update.
C29_StepsRunInOrder ==
    [][/\ \A t \in TurnIds :
             /\ tpc'[t] # tpc[t] => tpc'[t] \in After(tpc[t])
             /\ used'[t].retrieval > used[t].retrieval =>
                    tpc[t] = "find" /\ lead'[t].found
             /\ used'[t].generation > used[t].generation =>
                    /\ tpc[t] = "rag_query"
                    /\ tpc'[t] = "llm_invoke"
                    /\ used[t].retrieval = 1
                    /\ ~NoContext(retrievedContext'[t])
             /\ aiResult'[t] # aiResult[t] /\ tpc'[t] # "done" =>
                    /\ tpc[t] \in {"rag_init", "rag_query", "llm_invoke"}
                    /\ tpc'[t] = "update"
                    /\ RecordFixed(t)'
       /\ convo' # convo =>
             \E t \in TurnIds :
                /\ UpdateDone(t)
                /\ RecordFixed(t)
                /\ aiResult'[t] = aiResult[t]
       /\ callLogs' # callLogs =>
             \E t \in TurnIds : tpc[t] = "log" /\ tpc'[t] = "done"]_vars

\* A turn has gone through every step: retrieval and generation were called
\* once each, the validated record of the model is stored with its entries,
\* the CallLog is written and the call has returned.
C29_Witness ==
    /\ tpc["T1"] = "done"
    /\ result["T1"].kind = "ok"
    /\ used["T1"] = [retrieval |-> 1, generation |-> 1]
    /\ result["T1"].response = Reply2.response.s
    /\ Len(callLogs) = 1
    /\ convo[1].transcript # <<>>

\* The reply c holds no record that parses: no "{" with a "}" after it, or a
\* match that JSON.parse rejects (no reply at all included).
Unparsable(c) ==
    LET m == MatchJSON(c.text)
    IN  m = <<>> \/ ~ParseJSON(m, c.members).ok

\* The generation of turn t was invoked and failed: getModel() or invoke
\* threw (the turn has no reply), or the reply holds no parsable record.
GenerationFailed(t) ==
    /\ tpc[t] \in {"update", "log"}
    /\ used[t].generation = 1
    /\ Unparsable(llmOutput[t])

\* C30: a generation failure (the collaborator throws, the API key is
\* missing, or the output holds no parsable record) does not reach the
\* caller: the step that ends the generation never ends the turn, after a
\* failure the record of the turn is the fallback record; its update appends
\* the user entry and the fallback text and writes the score the turn read
\* (delta 0), leaving the course; its CallLog has handoff_required = false
\* and the turn returns the fallback response; the only errors such a turn
\* can still end in are those of its own two store operations.
C30_GenerationFailureInvisible ==
    /\ [](\A t \in TurnIds : GenerationFailed(t) => aiResult[t] = FallbackRecord)
    /\ [][\A t \in TurnIds :
            /\ tpc[t] = "llm_invoke" /\ tpc'[t] # "llm_invoke" =>
                  /\ tpc'[t] = "update"
                  /\ result'[t] = result[t]
                  /\ llmOutput'[t] = NoContent => GenerationFailed(t)'
            /\ GenerationFailed(t) =>
                  /\ UpdateDone(t) =>
                        /\ convo'[TurnLead(t)].transcript =
                              convo[TurnLead(t)].transcript \o
                                 <<Entry("user", req[t].userMessage),
                                   Entry("assistant", FALLBACK_TEXT)>>
                        /\ convo'[TurnLead(t)].interest_score = lead[t].interest_score
                        /\ convo'[TurnLead(t)].course_interest =
                              convo[TurnLead(t)].course_interest
                  /\ tpc[t] = "log" /\ tpc'[t] = "done" /\ result'[t].kind = "ok" =>
                        /\ Len(callLogs') = Len(callLogs) + 1
                        /\ ~callLogs'[Len(callLogs')].handoff_required
                        /\ callLogs'[Len(callLogs')].intents = <<"general">>
                        /\ result'[t].response = FALLBACK_TEXT
                        /\ ~result'[t].handoff_required
                  /\ tpc'[t] = "done" /\ result'[t].kind = "error" =>
                        result'[t].error \in {"findByIdAndUpdate rejected",
                                              "CallLog.create rejected"}]_vars

\* The call of the model threw (the turn has no reply) on a seasoned lead;
\* the turn has stored its question and the fallback text with the score it
\* read and is creating its CallLog.
C30_Witness ==
    /\ tpc["T1"] = "log"
    /\ used["T1"].generation = 1
    /\ llmOutput["T1"] = NoContent
    /\ aiResult["T1"] = FallbackRecord
    /\ Len(convo[1].transcript) = Len(lead["T1"].transcript) + 2
    /\ lead["T1"].transcript # <<>>
    /\ convo[1].interest_score = lead["T1"].interest_score
    /\ updatedLead["T1"].interest_score = lead["T1"].interest_score

\* ------------------------------------------------------------- claims: the rest

\* The reply c contains one well-formed record with all six fields of the
\* right type, whatever stands before and after it.
HoldsValidRecord(c) ==
    /\ \E i \in 1..(Len(c.text) - 2) :
          SubSeq(c.text, i, i + 2) = <<"{", "members", "}">>
    /\ IsValid(c.members)

\* C31: for every reply of the model that contains one well-formed record
\* with all six fields correctly typed, whatever text precedes or follows it
\* (text with braces included), the record of the turn is that record and
\* not the fallback.
C31_RecordInProseAccepted ==
    [][\A t \in TurnIds :
         (tpc[t] = "llm_invoke" /\ tpc'[t] = "update"
            /\ HoldsValidRecord(llmOutput'[t])) =>
               aiResult'[t] = llmOutput'[t].members]_vars

\* Turn t is under way: processMessage was called and has not ended.
UnderWay(t) == tpc[t] \notin {"idle", "done"}

\* C32: every started turn terminates: given that each collaborator call and
\* each store call returns or fails, a turn under way ends, with a response
\* (of the model, the fallback or the handoff) or with an error and never
\* both; it calls retrieval and generation at most once each (no retry).
C32_TurnTerminates ==
    /\ [](\A t \in TurnIds :
            /\ used[t].retrieval <= 1 /\ used[t].generation <= 1
            /\ tpc[t] = "done" => result[t].kind \in {"ok", "error"}
            /\ UnderWay(t) => result[t].kind = "none")
    /\ \A t \in TurnIds : UnderWay(t) ~> (tpc[t] = "done")

\* A turn went through retrieval, generation and its update, and the
\* creation of its CallLog was rejected: it has ended with that error.
C32_Witness ==
    /\ tpc["T1"] = "done"
    /\ used["T1"] = [retrieval |-> 1, generation |-> 1]
    /\ result["T1"] = Failure("CallLog.create rejected")

\* C33: every pending lead eventually reaches completed or failed, with a
\* cron that keeps firing and a resolver that always returns, also while
\* new leads are imported.
C33_PendingLeadReachesTerminal ==
    \A l \in 1..MaxLeads :
        (l \in LeadIds(leads) /\ leads[l].status = "pending")
            ~> (l \in LeadIds(leads) /\ leads[l].status \in Terminal)

\* The delta of the record turn t holds.
Delta(t) == aiResult[t].interest_score_delta.n

\* clamp(clamp(s + d1) + d2)
InOrder(s, d1, d2) == Clamp(Clamp(s + d1, 0, 100) + d2, 0, 100)

\* C34: score updates of concurrent turns are not lost: when two turns on
\* the same lead have both persisted, the stored interest_score is the
\* result of applying both deltas in some sequential order to s, the score
\* before both turns (the score read by the turn that read first).
C34_NoLostScoreUpdate ==
    BothUpdated =>
        LET first == IF Len(lead["T1"].transcript) <= Len(lead["T2"].transcript)
                     THEN "T1" ELSE "T2"
            s == lead[first].interest_score
        IN  convo[TurnLead("T1")].interest_score \in
               {InOrder(s, Delta("T1"), Delta("T2")),
                InOrder(s, Delta("T2"), Delta("T1"))}

\* C35: the update of a turn on the handoff path or the fallback path
\* (delta 0, no course) leaves the stored interest_score and course_interest
\* of its lead exactly as they were immediately before the write, also when
\* another turn on the lead has persisted since this turn read it.
C35_HandoffAndFallbackKeepScore ==
    [][\A t \in TurnIds :
         (UpdateDone(t) /\ aiResult[t] \in {HandoffRecord, FallbackRecord}) =>
            /\ convo'[TurnLead(t)].interest_score = convo[TurnLead(t)].interest_score
            /\ convo'[TurnLead(t)].course_interest = convo[TurnLead(t)].course_interest]_vars

\* processMessage of turn t ends with an error in this step.
TurnFails(t) == UnderWay(t) /\ tpc'[t] = "done" /\ result'[t].kind = "error"

\* C36: a failed turn leaves no trace: when processMessage ends with an
\* error, the stored lead is as it was before the turn started. With one
\* caller at a time that is the lead as the turn loaded it: the step leaves
\* every lead alone, and the stored transcript and interest_score are those
\* of the loaded document (course_interest and summary are written by the
\* update that appends to the transcript and by nothing else).
C36_FailedTurnLeavesNoTrace ==
    [][\A t \in TurnIds :
         TurnFails(t) =>
            /\ convo' = convo
            /\ lead[t].found =>
                  /\ convo'[lead[t].id].transcript = lead[t].transcript
                  /\ convo'[lead[t].id].interest_score = lead[t].interest_score]_vars

\* The resolved query r matched no document: `documents` is absent, is an
\* empty list, or holds one empty list of matches.
ZeroMatches(r) ==
    \/ ~r.has
    \/ r.documents = <<>>
    \/ r.documents = <<(<<>>)>>

\* C37: whenever the query of a turn resolves with zero matches, whatever
\* the shape of the empty result, retrieveContext returns the
\* no-relevant-information text, the turn takes the handoff path and the
\* model is not invoked.
C37_EmptyRetrievalGivesHandoff ==
    [][\A t \in TurnIds :
         (\E r \in QueryResults : ZeroMatches(r) /\ RagQueryReturns(t, r)) =>
            /\ retrievedContext'[t] = NO_CONTEXT
            /\ tpc'[t] = "update"
            /\ aiResult'[t] = HandoffRecord
            /\ used'[t].generation = used[t].generation]_vars

\* Every dependency is reachable and configured.
AllReachable == env = AllUp

\* C38: the detailed health check answers degraded with HTTP 503 whenever
\* one of the three dependencies (MongoDB, ChromaDB, Groq) is unreachable or
\* not configured, and healthy with HTTP 200 only when all three are
\* reachable.
C38_DegradedWhenADependencyIsDown ==
    health.pc = "done" =>
        /\ health.code \in {200, 503}
        /\ (health.code = 200) = (health.status = "healthy")
        /\ health.success = (health.status = "healthy")
        /\ (health.status = "healthy") = AllReachable

\* C39: for every batch import the reported counts account for every valid
\* row: inserted + skipped = total, total being the number of rows with
\* name, phone and email, and every skipped row is listed with the
\* duplicated field.
C39_CountsAccountForEveryRow ==
    \A u \in Uploaders :
        (upload[u].pc = "done" /\ upload[u].kind = "ok") =>
            /\ upload[u].inserted + upload[u].skipped = upload[u].total
            /\ Len(upload[u].duplicates) = upload[u].skipped
            /\ \A i \in 1..Len(upload[u].duplicates) :
                  upload[u].duplicates[i].field \in {"email", "phone"}
====
